---- MODULE Spec2Model ----
(***************************************************************************)
(* Recipe_Finder.c: the search orchestration (initialize_on_search,        *)
(* search_thread_func, search_complete_cb, show_results,                   *)
(* insert_next_button), the site parsers of g_recipe_site_table, add_link  *)
(* and the query interpreter, as a state machine.                          *)
(*                                                                         *)
(* A C string is a tuple of bytes; an ASCII byte is a one-character        *)
(* string, any other byte is written as its two hex digits ("E2").         *)
(***************************************************************************)
EXTENDS Integers, Sequences, FiniteSets, TLC

\* ------------------------------------------------------------------------
\* Bounds of the model
\* ------------------------------------------------------------------------

\* searches one run of the application starts
MaxSearches == 2

\* items of an extractor's JSON array, anchors of a page (orchestration)
MaxItems == 2

\* consecutive parser invocations in the parser specification
\* calls of the write callback in one download
MaxWrites == 5

MaxCalls == 2

\* ------------------------------------------------------------------------
\* Program constants
\* ------------------------------------------------------------------------

MAX_RESULTS == 50

\* char temp_title[512] in add_link
TITLE_BUF == 512

\* 32 * 1024 * 1024
MAX_DOWNLOAD_SIZE == 33554432

\* 128 * 1024
DEFAULT_MEMORY_PARSER_SIZE == 131072

\* 16 * 1024, 64 * 1024, 256 * 1024
LOW_CAPACITY_PARSER_RAM_KB == 16384

MID_CAPACITY_PARSER_RAM_KB == 65536

HIGH_CAPACITY_PARSER_RAM_KB == 262144

NumSites == 20

NULL == <<"NULL">>

\* ------------------------------------------------------------------------
\* C strings
\* ------------------------------------------------------------------------

Str(s) == [i \in 1..Len(s) |-> SubSeq(s, i, i)]

LowerAlpha == Str("abcdefghijklmnopqrstuvwxyz")

UpperAlpha == Str("ABCDEFGHIJKLMNOPQRSTUVWXYZ")

Digits == Str("0123456789")

InStr(c, s) == \E i \in 1..Len(s) : s[i] = c

IndexIn(c, s) == CHOOSE i \in 1..Len(s) : s[i] = c

islower(c) == InStr(c, LowerAlpha)

isupper(c) == InStr(c, UpperAlpha)

isalpha(c) == islower(c) \/ isupper(c)

isalnum(c) == isalpha(c) \/ InStr(c, Digits)

isspace(c) == c \in {" ", "\t", "\n", "\r"}

tolower(c) == IF isupper(c) THEN LowerAlpha[IndexIn(c, UpperAlpha)] ELSE c

toupper(c) == IF islower(c) THEN UpperAlpha[IndexIn(c, LowerAlpha)] ELSE c

\* control bytes (< 0x20) and DEL of the model's alphabet
IsControl(c) == c \in {"\t", "\n", "\r", "7F"}

g_ascii_strdown(s) == [i \in 1..Len(s) |-> tolower(s[i])]

\* strstr(h, n) != NULL
strstr(h, n) ==
    \E i \in 1..(Len(h) - Len(n) + 1) : SubSeq(h, i, i + Len(n) - 1) = n

\* snprintf(dst, size, "%s", s): at most size - 1 bytes are kept
Truncate(s, size) == IF Len(s) < size THEN s ELSE SubSeq(s, 1, size - 1)

RECURSIVE LStrip(_)
LStrip(s) == IF s # <<>> /\ isspace(Head(s)) THEN LStrip(Tail(s)) ELSE s

RECURSIVE RStrip(_)
RStrip(s) ==
    IF s # <<>> /\ isspace(s[Len(s)]) THEN RStrip(SubSeq(s, 1, Len(s) - 1)) ELSE s

g_strstrip(s) == RStrip(LStrip(s))

\* the loop of capitalize_each_word from the byte at the head of s
RECURSIVE CapWords(_, _)
CapWords(s, capitalize_next) ==
    IF s = <<>> THEN <<>>
    ELSE IF capitalize_next /\ isalpha(Head(s))
         THEN <<toupper(Head(s))>> \o CapWords(Tail(s), FALSE)
    ELSE <<tolower(Head(s))>> \o CapWords(Tail(s), capitalize_next \/ Head(s) = " ")

capitalize_each_word(s) == CapWords(s, TRUE)

sanitize_string(s) == SelectSeq(s, LAMBDA c : ~IsControl(c))

\* "%XX" of the bytes the model's strings hold outside the unreserved set
PercentCode(c) ==
    CASE c = " " -> Str("%20")
      [] c = "\"" -> Str("%22")
      [] c = "'" -> Str("%27")
      [] c = "/" -> Str("%2F")
      [] c = ":" -> Str("%3A")
      [] c = "?" -> Str("%3F")
      [] c = "=" -> Str("%3D")
      [] OTHER -> <<"%", c>>

IsUnreserved(c) == isalnum(c) \/ c \in {"-", ".", "_", "~"}

RECURSIVE url_encode(_)
url_encode(s) ==
    IF s = <<>> THEN <<>>
    ELSE (IF IsUnreserved(Head(s)) THEN <<Head(s)>> ELSE PercentCode(Head(s)))
         \o url_encode(Tail(s))

\* g_uri_escape_string(q, NULL, FALSE) and curl_escape(q, 0): the same escaping
g_uri_escape_string(s) == url_encode(s)

trim_whitespace(s, dest_size) == Truncate(g_strstrip(s), dest_size)

\* ------------------------------------------------------------------------
\* Query interpreter
\* ------------------------------------------------------------------------

QUOTE_NONE == "QUOTE_NONE"

QUOTE_SINGLE == "QUOTE_SINGLE"

QUOTE_PAIR == "QUOTE_PAIR"

Count(c, s) == Cardinality({i \in 1..Len(s) : s[i] = c})

\* detect_quote_status with one counter for both kinds of quote
detect_quote_status_one_counter(search_term) ==
    LET quotes == Count("'", search_term) + Count("\"", search_term)
    IN IF quotes > 0 /\ quotes % 2 = 0 THEN QUOTE_PAIR
       ELSE IF quotes > 0 THEN QUOTE_SINGLE
       ELSE QUOTE_NONE

detect_quote_status(search_term) ==
    LET single_quotes == Count("'", search_term)
        double_quotes == Count("\"", search_term)
    IN IF (single_quotes > 0 /\ single_quotes % 2 = 0)
          \/ (double_quotes > 0 /\ double_quotes % 2 = 0)
       THEN QUOTE_PAIR
       ELSE IF single_quotes > 0 \/ double_quotes > 0 THEN QUOTE_SINGLE
       ELSE QUOTE_NONE

\* the byte at index i, "00" (the terminator) past the end
ByteAt(s, i) == IF i <= Len(s) THEN s[i] ELSE "00"

RECURSIVE NormQuotes(_, _)
NormQuotes(s, i) ==
    IF i > Len(s) THEN s
    ELSE IF s[i] = "E2" /\ ByteAt(s, i + 1) = "80" /\ ByteAt(s, i + 2) \in {"98", "99"}
         THEN NormQuotes([s EXCEPT ![i] = "'", ![i + 1] = " ", ![i + 2] = " "], i + 1)
    ELSE IF s[i] = "E2" /\ ByteAt(s, i + 1) = "80" /\ ByteAt(s, i + 2) \in {"9C", "9D"}
         THEN NormQuotes([s EXCEPT ![i] = "\"", ![i + 1] = " ", ![i + 2] = " "], i + 1)
    ELSE NormQuotes(s, i + 1)

normalize_quotes_utf8(s) == NormQuotes(s, 1)

\* strchr(s + from - 1, c): the least index >= from holding c, 0 if none
IndexFrom(s, from, c) ==
    IF \E i \in from..Len(s) : s[i] = c
    THEN CHOOSE i \in from..Len(s) : s[i] = c /\ \A j \in from..(i - 1) : s[j] # c
    ELSE 0

RECURSIVE ExtractFrom(_, _, _)

\* ExtractPhrase with "p++" for "break" where strchr finds no closing
\* quote: the scan goes on behind the unmatched quote
ExtractPhraseOn(input, p, end, phrases) ==
    IF end = 0 THEN ExtractFrom(input, p + 1, phrases)
    ELSE ExtractFrom(input, end + 1,
                     IF end - (p + 1) > 0
                     THEN Append(phrases,
                                 g_ascii_strdown(g_strstrip(SubSeq(input, p + 1, end - 1))))
                     ELSE phrases)

\* one phrase of extract_quoted_phrases: the opening quote is at p, the
\* closing one at end (0 when strchr finds none)
ExtractPhrase(input, p, end, phrases) ==
    IF end = 0 THEN phrases
    ELSE ExtractFrom(input, end + 1,
                     IF end - (p + 1) > 0
                     THEN Append(phrases,
                                 g_ascii_strdown(g_strstrip(SubSeq(input, p + 1, end - 1))))
                     ELSE phrases)

ExtractFrom(input, p, phrases) ==
    IF p > Len(input) THEN phrases
    ELSE IF input[p] \in {"\"", "'"}
         THEN ExtractPhrase(input, p, IndexFrom(input, p + 1, input[p]), phrases)
    ELSE ExtractFrom(input, p + 1, phrases)

extract_quoted_phrases(search_term) ==
    ExtractFrom(normalize_quotes_utf8(search_term), 1, <<>>)

stop_words ==
    {Str("a"), Str("an"), Str("the"), Str("and"), Str("or"), Str("with"), Str("of"),
     Str("in"), Str("on"), Str("at"), Str("to"), Str("for"), Str("by")}

is_stop_word(word) == g_ascii_strdown(word) \in stop_words

\* strtok_r(s, " "): the maximal runs of bytes other than a space
RECURSIVE SplitSpace(_, _, _)
SplitSpace(s, cur, acc) ==
    IF s = <<>> THEN (IF cur = <<>> THEN acc ELSE Append(acc, cur))
    ELSE IF Head(s) = " "
         THEN SplitSpace(Tail(s), <<>>, IF cur = <<>> THEN acc ELSE Append(acc, cur))
    ELSE SplitSpace(Tail(s), Append(cur, Head(s)), acc)

tokenize_and_filter_stop_words(phrase) ==
    SelectSeq(SplitSpace(g_ascii_strdown(phrase), <<>>, <<>>),
              LAMBDA t : ~is_stop_word(t))

\* the GString loops of show_results: a space goes in only once the
\* string built so far is non-empty
RECURSIVE Combine(_, _)
Combine(ss, acc) ==
    IF ss = <<>> THEN acc
    ELSE Combine(Tail(ss), (IF Len(acc) > 0 THEN acc \o <<" ">> ELSE acc) \o Head(ss))

\* partial_search_term of show_results, NULL when it is not built
PartialOfTokens(partial_tokens) ==
    IF partial_tokens = <<>> THEN NULL ELSE Combine(partial_tokens, <<>>)

PartialOfPhrases(quoted_phrases) ==
    IF quoted_phrases = <<>> THEN NULL
    ELSE PartialOfTokens(tokenize_and_filter_stop_words(Combine(quoted_phrases, <<>>)))

partial_search_term(search_term, quote_status) ==
    IF quote_status # QUOTE_PAIR THEN NULL
    ELSE PartialOfPhrases(extract_quoted_phrases(search_term))

\* a list entry "title\x1furl": fb marks an entry a parser's fallback path
\* appended, freed an entry whose string was g_free'd while still in the list
Entry(title, url, fb) ==
    [title |-> title, url |-> url, fb |-> fb, freed |-> FALSE, sep |-> TRUE]

\* what reading an entry without the \x1f separator yields
NoSeparator == [title |-> <<>>, url |-> <<>>, fb |-> FALSE, freed |-> TRUE, sep |-> FALSE]

HasSeparator(e) == e.sep

\* RecipeInfo with "else if (matched_tokens > 0)" taken for "else": a title
\* holding none of the tokens counts as a partial match
RecipeInfoElse(e, total_tokens, matched_tokens) ==
    [title |-> e.title, url |-> e.url, fb |-> e.fb,
     perfect_match |-> total_tokens > 0 /\ matched_tokens = total_tokens,
     partial_match |-> total_tokens > 0 /\ matched_tokens # total_tokens,
     matched_tokens |-> matched_tokens, total_tokens |-> total_tokens]

\* one RecipeInfo of show_results: the entry e, its token counts
RecipeInfo(e, total_tokens, matched_tokens) ==
    [title |-> e.title, url |-> e.url, fb |-> e.fb,
     perfect_match |-> total_tokens > 0 /\ matched_tokens = total_tokens,
     partial_match |-> total_tokens > 0 /\ matched_tokens # total_tokens
                       /\ matched_tokens > 0,
     matched_tokens |-> matched_tokens, total_tokens |-> total_tokens]

\* MatchTokens with a token counted only when it is a whole word of the
\* title, not when strstr finds it anywhere in the title
MatchWords(e, lower_title, tokens) ==
    RecipeInfo(e, Len(tokens),
               Cardinality({i \in 1..Len(tokens) :
                                \E k \in 1..Len(SplitSpace(lower_title, <<>>, <<>>)) :
                                    SplitSpace(lower_title, <<>>, <<>>)[k] = tokens[i]}))

\* the tokens of the decisive term counted in the lower-cased title
MatchTokens(e, lower_title, tokens) ==
    RecipeInfo(e, Len(tokens),
               Cardinality({i \in 1..Len(tokens) : strstr(lower_title, tokens[i])}))

MatchInfo(e, pst) ==
    MatchTokens(e, g_ascii_strdown(e.title),
                IF pst = NULL THEN <<>> ELSE tokenize_and_filter_stop_words(pst))

\* if (quote_status == QUOTE_PAIR && !perfect_match && !partial_match) continue;
Kept(ri, quote_status) ==
    IF quote_status = QUOTE_PAIR /\ ~ri.perfect_match /\ ~ri.partial_match THEN <<>>
    ELSE <<ri>>

\* the loop of show_results over the links; pst is partial_search_term
RECURSIVE RankLinks(_, _, _)
RankLinks(links, quote_status, pst) ==
    IF links = <<>> THEN <<>>
    ELSE (IF ~HasSeparator(Head(links)) THEN <<>>
          ELSE Kept(MatchInfo(Head(links), pst), quote_status))
         \o RankLinks(Tail(links), quote_status, pst)

\* show_results after its nested loop: the queue of RecipeInfo it builds
show_results(links, search_term, quote_status) ==
    RankLinks(links, quote_status, partial_search_term(search_term, quote_status))

\* ------------------------------------------------------------------------
\* add_link: ps holds *out, link_set and recipe_result_total
\* ------------------------------------------------------------------------

NewParse == [out |-> <<>>, set |-> {}, total |-> 0]

\* the second half of add_link: the lookup in link_set and the insertion
AddIfNew(ps, safe_title, full_url, fb) ==
    IF full_url \notin ps.set
    THEN [out |-> Append(ps.out, Entry(safe_title, full_url, fb)),
          set |-> ps.set \cup {full_url},
          total |-> ps.total + 1]
    ELSE ps

add_link(ps, title, base_url, href, fb) ==
    IF ps.total >= MAX_RESULTS THEN ps
    ELSE AddIfNew(ps, sanitize_string(capitalize_each_word(Truncate(title, TITLE_BUF))),
                  base_url \o sanitize_string(href), fb)

\* ------------------------------------------------------------------------
\* Query interpreter helpers of the parsers
\* ------------------------------------------------------------------------

isdigit(c) == InStr(c, Digits)

\* the greatest index of s holding a byte of the set cs, 0 if none
LastIndex(s, cs) ==
    IF \E i \in 1..Len(s) : s[i] \in cs
    THEN CHOOSE i \in 1..Len(s) : s[i] \in cs /\ \A j \in (i + 1)..Len(s) : s[j] \notin cs
    ELSE 0

\* Step 2 of split_title_and_digits: walk back over digits and commas
RECURSIVE DigitBlockStart(_, _)
DigitBlockStart(title, start) ==
    IF start > 1 /\ (isdigit(title[start - 1]) \/ title[start - 1] = ",")
    THEN DigitBlockStart(title, start - 1)
    ELSE start

\* Steps 3 to 5 of split_title_and_digits: the digit block is title[start..end]
SplitAt(title, start, end) ==
    IF start > 1 /\ isalpha(title[start - 1]) THEN title
    ELSE IF start > 1 /\ title[start - 1] = "("
         THEN SubSeq(title, 1, start - 2) \o Str("  - ") \o SubSeq(title, start - 1, Len(title))
    ELSE SubSeq(title, 1, start - 1) \o Str(" - ") \o SubSeq(title, start, Len(title))

\* Steps 1 and 2: end is the last digit of the title, 0 if it has none
SplitFrom(title, end) ==
    IF Len(title) = 0 \/ end = 0 THEN title
    ELSE SplitAt(title, DigitBlockStart(title, end), end)

split_title_and_digits(title) ==
    SplitFrom(title, LastIndex(title, {Digits[i] : i \in 1..Len(Digits)}))

contains_word_case_insensitive(haystack, needle) ==
    strstr(g_ascii_strdown(Truncate(haystack, 512)), g_ascii_strdown(Truncate(needle, 128)))

RECURSIVE CamelSplit(_, _)
CamelSplit(s, i) ==
    IF i > Len(s) THEN <<>>
    ELSE (IF i > 1 /\ isupper(s[i]) /\ islower(s[i - 1]) THEN <<" ", s[i]>> ELSE <<s[i]>>)
         \o CamelSplit(s, i + 1)

\* slug_to_title once the slug is trimmed
TitleOfTrimmed(trimmed_slug, out_size) ==
    IF \E i \in 1..Len(trimmed_slug) : trimmed_slug[i] \in {" ", "_", "-"}
    THEN Truncate([i \in 1..Len(trimmed_slug) |->
                      IF trimmed_slug[i] \in {"_", "-"} THEN " " ELSE trimmed_slug[i]],
                  out_size)
    ELSE Truncate(CamelSplit(trimmed_slug, 1), out_size)

slug_to_title(slug, out_size) == TitleOfTrimmed(trim_whitespace(slug, 256), out_size)

\* ------------------------------------------------------------------------
\* What a parser meets outside the program
\*   run: one run of a site's extractor script
\*     tmp    "ok", or the call that failed creating the script file
\*     popen  the extractor process could be started
\*     status its exit status
\*     json   "empty" (no output), "invalid" (not a JSON array) or "array"
\*     items  the members of the array; a field an item lacks is NULL
\*   page: the anchors of the fetched document in depth-first order, each
\*         with its href and its text (NULL when it has none)
\* ------------------------------------------------------------------------

Item(title, url) == [title |-> title, url |-> url]

Anchor(href, text) == [href |-> href, text |-> text]

HasBoth(it) == it.title # NULL /\ it.url # NULL

NonEmptyBoth(it) == HasBoth(it) /\ Len(it.title) > 0 /\ Len(it.url) > 0

IsArray(run) == run.json = "array"

\* The item loops built on add_link stop looking at the items once the
\* counter has reached MAX_RESULTS: from then on every add_link of the C loop
\* returns at its first test and the list, the set and the counter stay as
\* they are.

\* the item loop the extractor-backed parsers share: title and url present
RECURSIVE AddItems(_, _)
AddItems(ps, items) ==
    IF items = <<>> \/ ps.total >= MAX_RESULTS THEN ps
    ELSE AddItems(IF HasBoth(Head(items))
                  THEN add_link(ps, Head(items).title, <<>>, Head(items).url, FALSE)
                  ELSE ps,
                  Tail(items))

\* the same loop with the strlen() > 0 tests on title and url
RECURSIVE AddNonEmptyItems(_, _)
AddNonEmptyItems(ps, items) ==
    IF items = <<>> \/ ps.total >= MAX_RESULTS THEN ps
    ELSE AddNonEmptyItems(IF NonEmptyBoth(Head(items))
                          THEN add_link(ps, Head(items).title, <<>>, Head(items).url, FALSE)
                          ELSE ps,
                          Tail(items))

\* ------------------------------------------------------------------------
\* The parsers of g_recipe_site_table (the non-Windows build)
\* ------------------------------------------------------------------------

\* if (*out == NULL) add_link(out, title, "", url, link_set);
OrFallback(after, title, url) ==
    IF after.out = <<>> THEN add_link(after, title, <<>>, url, TRUE) ELSE after

RECURSIVE AllRecipesItems(_, _)
AllRecipesItems(ps, items) ==
    IF items = <<>> \/ ps.total >= MAX_RESULTS THEN ps
    ELSE AllRecipesItems(IF HasBoth(Head(items))
                         THEN add_link(ps, split_title_and_digits(Head(items).title), <<>>,
                                       Head(items).url, FALSE)
                         ELSE ps,
                         Tail(items))

parse_allrecipes(ps, env, search_term) ==
    IF env.run.tmp # "ok" \/ ~env.run.popen THEN ps
    ELSE IF ~IsArray(env.run)
         THEN add_link(ps, Str("Click to see AllRecipes Search Page"), <<>>,
                       Str("https://www.allrecipes.com/recipes/"), TRUE)
    ELSE OrFallback(AllRecipesItems(ps, env.run.items),
                    Str("Click to see AllRecipes Search Page"),
                    Str("https://www.allrecipes.com/recipes/"))

\* strchr(clean_url, '?') and the cut there
StripQuery(url) ==
    IF InStr("?", url) THEN SubSeq(url, 1, IndexFrom(url, 1, "?") - 1) ELSE url

RECURSIVE BbcItems(_, _)
BbcItems(ps, items) ==
    IF items = <<>> \/ ps.total >= MAX_RESULTS THEN ps
    ELSE BbcItems(IF NonEmptyBoth(Head(items))
                  THEN add_link(ps, Head(items).title, <<>>, StripQuery(Head(items).url), FALSE)
                  ELSE ps,
                  Tail(items))

parse_bbcgoodfood(ps, env, search_term) ==
    IF env.run.tmp # "ok" THEN ps
    ELSE IF ~env.run.popen \/ ~IsArray(env.run)
         THEN add_link(ps, Str("Click to see BBC Good Food Recipes"), <<>>,
                       Str("https://www.bbcgoodfood.com/search"), TRUE)
    ELSE OrFallback(BbcItems(ps, env.run.items), Str("Click to see BBC Good Food Recipes"),
                    Truncate(Str("https://www.bbcgoodfood.com/search?q=")
                             \o url_encode(search_term), 1024))

\* the shape parse_bonappetit and parse_budgetbytes share: one fixed fallback
FixedFallbackParser(ps, run, title, url) ==
    IF run.tmp # "ok" THEN ps
    ELSE IF ~run.popen \/ ~IsArray(run) THEN add_link(ps, title, <<>>, url, TRUE)
    ELSE OrFallback(AddItems(ps, run.items), title, url)

parse_bonappetit(ps, env, search_term) ==
    FixedFallbackParser(ps, env.run, Str("Click to see Bon Appetit Recipes Search Page"),
                        Str("https://www.bonappetit.com/recipes"))

parse_budgetbytes(ps, env, search_term) ==
    FixedFallbackParser(ps, env.run, Str("Click to see Budget Bytes Search Page"),
                        Str("https://www.budgetbytes.com/recipes"))

parse_chowhound(ps, env, search_term) ==
    add_link(ps, Str("Click to see main Chowhound Recipe Page"), <<>>,
             Str("https://www.chowhound.com/category/recipes/"), TRUE)

parse_cooksillustrated(ps, env, search_term) ==
    IF env.run.tmp # "ok" THEN ps
    ELSE IF ~env.run.popen \/ ~IsArray(env.run)
         THEN add_link(ps, Str("Click to see America's Test Kitchen Recipes"), <<>>,
                       Str("https://www.americastestkitchen.com/recipes"), TRUE)
    ELSE OrFallback(IF env.run.items = <<>>
                    THEN add_link(ps, Str("No recipes found for your search term"), <<>>,
                                  Str("https://www.americastestkitchen.com/recipes"), TRUE)
                    ELSE AddItems(ps, env.run.items),
                    Str("Click to see Cook's Illustrated / ATK Recipes"),
                    Str("https://www.americastestkitchen.com/recipes"))

parse_delish(ps, env, search_term) ==
    IF env.run.tmp # "ok" THEN ps
    ELSE add_link(ps,
                  Truncate(Str("Click to see ") \o search_term
                           \o Str(" recipes on the Delish website"), 256),
                  <<>>,
                  Truncate(Str("https://www.delish.com/search/?q=") \o search_term, 1024),
                  TRUE)

\* (search_term && *search_term) ? search_term : "chicken"
TermOrChicken(search_term) == IF search_term # <<>> THEN search_term ELSE Str("chicken")

\* parse_eatingwell with link_text and fallback built
EatingWell(ps, env, link_text, fallback) ==
    IF env.run.tmp # "ok" THEN ps
    ELSE IF ~env.playwright \/ ~env.run.popen \/ env.run.json = "empty" \/ ~IsArray(env.run)
         THEN add_link(ps, link_text, <<>>, fallback, TRUE)
    ELSE OrFallback(AddItems(ps, env.run.items), link_text, fallback)

parse_eatingwell(ps, env, search_term) ==
    EatingWell(ps, env,
               Truncate(Str("Click to see \"") \o TermOrChicken(search_term)
                        \o Str("\" recipes on Eating Well"), 256),
               Truncate(Str("https://www.eatingwell.com/search/?q=")
                        \o TermOrChicken(search_term), 1024))

StartsWith(s, prefix) == Len(s) >= Len(prefix) /\ SubSeq(s, 1, Len(prefix)) = prefix

\* one matching anchor of parse_epicurious; st = [ps, found_any]
EpicuriousAnchor(st, title, full_url) ==
    IF full_url \notin st.ps.set
    THEN [ps |-> add_link(st.ps, title, <<>>, full_url, FALSE), found_any |-> TRUE]
    ELSE st

\* the walk of parse_epicurious over the anchors
RECURSIVE parse_epicurious(_, _)
parse_epicurious(st, page) ==
    IF page = <<>> THEN st
    ELSE parse_epicurious(
             IF Head(page).href # NULL
                /\ strstr(Head(page).href, Str("/recipes/food/views/"))
             THEN EpicuriousAnchor(st,
                      IF Head(page).text = NULL \/ Head(page).text = <<>>
                      THEN Str("Epicurious Recipe") ELSE Head(page).text,
                      IF StartsWith(Head(page).href, Str("http")) THEN Head(page).href
                      ELSE Truncate(Str("https://www.epicurious.com") \o Head(page).href, 512))
             ELSE st,
             Tail(page))

\* the fallback of parse_epicurious_wrapper after the walk
EpicuriousFallback(st, search_term) ==
    IF ~st.found_any
    THEN add_link(st.ps,
                  Truncate(Str("Click to see \"") \o search_term \o Str("\" on Epicurious"), 256),
                  <<>>,
                  Truncate(Str("https://www.epicurious.com/search?q=")
                           \o url_encode(search_term), 512),
                  TRUE)
    ELSE st.ps

parse_epicurious_wrapper(ps, env, search_term) ==
    EpicuriousFallback(parse_epicurious([ps |-> ps, found_any |-> FALSE], env.page),
                       search_term)

parse_food52(ps, env, search_term) ==
    IF env.run.tmp # "ok" THEN ps
    ELSE IF ~env.run.popen \/ ~IsArray(env.run) \/ env.run.items = <<>>
         THEN add_link(ps, Str("Click to see Food52 Recipes"), <<>>,
                       Str("https://food52.com/recipes"), TRUE)
    ELSE AddNonEmptyItems(ps, env.run.items)

\* the item loop of parse_foodnetwork; st = [ps, seen_links]
RECURSIVE FoodNetworkItems(_, _)
FoodNetworkItems(st, items) ==
    IF items = <<>> THEN st
    ELSE IF NonEmptyBoth(Head(items)) /\ Head(items).url \notin st.seen_links
         THEN FoodNetworkItems(
                  [ps |-> add_link(st.ps, Head(items).title, <<>>, Head(items).url, FALSE),
                   seen_links |-> st.seen_links \cup {Head(items).url}],
                  Tail(items))
    ELSE FoodNetworkItems(st, Tail(items))

\* one turn of the loop over the terms
FoodNetworkRun(st, run) ==
    IF run.tmp # "ok" \/ ~run.popen \/ ~IsArray(run) THEN st
    ELSE FoodNetworkItems(st, run.items)

\* the loop over the terms: the first run is env.run, the alternates' env.alt
RECURSIVE FoodNetworkTerms(_, _, _, _)
FoodNetworkTerms(st, env, i, num_terms) ==
    IF i > num_terms THEN st
    ELSE FoodNetworkTerms(FoodNetworkRun(st, IF i = 1 THEN env.run ELSE env.alt),
                          env, i + 1, num_terms)

parse_foodnetwork(ps, env, search_term) ==
    OrFallback(FoodNetworkTerms([ps |-> ps, seen_links |-> {}], env, 1,
                                IF g_ascii_strdown(search_term) = Str("chili") THEN 5
                                ELSE 1).ps,
               Str("Click to see FoodNetwork Search Page"),
               Str("https://www.foodnetwork.com/search/"))

\* the shape parse_thekitchn, parse_smittenkitchen, parse_tasteofhome share:
\* a fallback naming the raw search term
TermFallbackParser(ps, run, popen_title, title, url) ==
    IF run.tmp # "ok" THEN ps
    ELSE IF ~run.popen THEN add_link(ps, popen_title, <<>>, url, TRUE)
    ELSE IF ~IsArray(run) THEN add_link(ps, title, <<>>, url, TRUE)
    ELSE OrFallback(AddItems(ps, run.items), title, url)

\* parse_thekitchn with fallback_title built
TheKitchn(ps, env, search_term, fallback_title) ==
    TermFallbackParser(ps, env.run, fallback_title, fallback_title,
        Truncate(Str("https://www.thekitchn.com/search?q=") \o search_term, 512))

parse_thekitchn(ps, env, search_term) ==
    TheKitchn(ps, env, search_term,
              Truncate(Str("Click to see \"") \o search_term \o Str("\" on TheKitchn Website"),
                       256))

\* an entry of parse_nyt: its string is g_free'd right after g_list_prepend
FreedEntry(title, url) ==
    [title |-> title, url |-> url, fb |-> FALSE, freed |-> TRUE, sep |-> TRUE]

\* one new item of parse_nyt: no add_link, no MAX_RESULTS, no counter
NytItem(ps, title, full_url) ==
    [ps EXCEPT !.out = Append(@, FreedEntry(title, full_url)), !.set = @ \cup {full_url}]

RECURSIVE NytItems(_, _)
NytItems(ps, items) ==
    IF items = <<>> THEN ps
    ELSE IF HasBoth(Head(items))
            /\ (Str("https://cooking.nytimes.com") \o Head(items).url) \notin ps.set
         THEN NytItems(NytItem(ps, Head(items).title,
                               Str("https://cooking.nytimes.com") \o Head(items).url),
                       Tail(items))
    ELSE NytItems(ps, Tail(items))

\* *links = g_list_prepend(*links, fallback_link)
NytFallback(ps, title, search_url) ==
    [ps EXCEPT !.out = <<Entry(title, search_url, TRUE)>> \o @]

\* if (*links == NULL) and the fallback of the end of parse_nyt
NytOrFallback(after, search_url) ==
    IF after.out = <<>>
    THEN NytFallback(after, Str("Click to see ") \o Str(" on the NY Times Cooking Website"),
                     search_url)
    ELSE after

\* parse_nyt with term and search_url built
Nyt(ps, run, search_term, term, search_url) ==
    IF ~run.popen
    THEN NytFallback(ps, Str("Click to see ") \o term
                         \o Str(" recipes on the NY Times Cooking Website"), search_url)
    ELSE IF run.status # 0 \/ run.json = "empty"
         THEN NytFallback(ps, Str("Click to see ") \o search_term
                              \o Str(" on the NY Times Cooking Website"), search_url)
    ELSE IF ~IsArray(run)
         THEN NytFallback(ps, Str("Click to see ") \o Str(" on the NY Times Cooking Website"),
                          search_url)
    ELSE NytOrFallback(NytItems(ps, run.items), search_url)

parse_nyt(ps, env, search_term) ==
    Nyt(ps, env.run, search_term, TermOrChicken(search_term),
        Truncate(Str("https://cooking.nytimes.com/search?q=")
                 \o url_encode(TermOrChicken(search_term)), 512))

\* while (prev > url && *prev != '/') prev--;
RECURSIVE PrevSlash(_, _)
PrevSlash(url, prev) ==
    IF prev > 1 /\ url[prev] # "/" THEN PrevSlash(url, prev - 1) ELSE prev

\* the slug of search_for_saveur_links: raw is what follows last_slash
SaveurSlug(raw) ==
    CapWords([i \in 1..Len(raw) |-> IF raw[i] = "-" THEN " " ELSE raw[i]], TRUE)

\* snprintf(slug, ...) and the cut of a trailing '/'
SaveurRaw(raw) ==
    SaveurSlug(IF raw # <<>> /\ raw[Len(raw)] = "/" THEN SubSeq(raw, 1, Len(raw) - 1) ELSE raw)

SaveurFrom(url, last_slash) ==
    IF last_slash = 0 THEN Str("Untitled")
    ELSE SaveurRaw(Truncate(SubSeq(url, last_slash + 1, Len(url)), 256))

SaveurLastSlash(url, slash) ==
    SaveurFrom(url, IF slash # 0 /\ slash = Len(url) THEN PrevSlash(url, slash - 1) ELSE slash)

\* the title search_for_saveur_links derives from the URL of an anchor without text
SaveurSlugTitle(url) == SaveurLastSlash(url, LastIndex(url, {"/"}))

RECURSIVE search_for_saveur_links(_, _)
search_for_saveur_links(ps, page) ==
    IF page = <<>> THEN ps
    ELSE search_for_saveur_links(
             IF Head(page).href # NULL
                /\ (strstr(Head(page).href, Str("/recipe/"))
                    \/ strstr(Head(page).href, Str("/article/")))
             THEN add_link(ps,
                      IF Head(page).text # NULL /\ Len(Head(page).text) > 0
                      THEN g_strstrip(Head(page).text)
                      ELSE SaveurSlugTitle(Head(page).href),
                      <<>>,
                      IF strstr(Head(page).href, Str("https://"))
                         \/ strstr(Head(page).href, Str("http://"))
                      THEN Head(page).href
                      ELSE Truncate(Str("https://www.saveur.com") \o Head(page).href, 1024),
                      FALSE)
             ELSE ps,
             Tail(page))

\* env.curl: "ok", "init" (curl_easy_init failed) or "fetch" (no page came
\* back); the page parse_saveur fetches itself is env.page
parse_saveur(ps, env, search_term) ==
    IF env.curl # "ok" THEN ps
    ELSE OrFallback(search_for_saveur_links(ps, env.page),
                    Truncate(Str("Search Saveur.com for ") \o TermOrChicken(search_term)
                             \o Str(" recipes"), 256),
                    Truncate(Str("https://www.saveur.com/search/")
                             \o url_encode(TermOrChicken(search_term)), 1024))

parse_seriouseats(ps, env, search_term) ==
    IF env.run.tmp # "ok" THEN ps
    ELSE IF ~env.run.popen \/ ~IsArray(env.run)
         THEN add_link(ps, Str("Click to see Serious Eats Search Page"), <<>>,
                       Str("https://www.seriouseats.com/recipes"), TRUE)
    ELSE OrFallback(AddNonEmptyItems(ps, env.run.items),
                    Str("Click to see Serious Eats Search Page"),
                    Str("https://www.seriouseats.com/recipes"))

RECURSIVE parse_simplyrecipes(_, _)
parse_simplyrecipes(ps, page) ==
    IF page = <<>> THEN ps
    ELSE parse_simplyrecipes(
             IF Head(page).href # NULL
                /\ strstr(Head(page).href, Str("simplyrecipes.com/recipes/"))
             THEN add_link(ps,
                           IF Head(page).text # NULL THEN Head(page).text
                           ELSE Head(page).href,
                           <<>>, Head(page).href, FALSE)
             ELSE ps,
             Tail(page))

parse_smittenkitchen(ps, env, search_term) ==
    TermFallbackParser(ps, env.run,
        Truncate(Str("Search for ") \o search_term \o Str(" on Smitten Kitchen Website"), 512),
        Truncate(Str("Search for \"") \o search_term
                 \o Str("\" on Smitten Kitchen Website"), 512),
        Truncate(Str("https://smittenkitchen.com/?s=") \o search_term, 512))

\* parse_spruceeats once its fallback link is in the list
SpruceEats(first, run) ==
    IF ~run.popen \/ run.status # 0 \/ ~IsArray(run) THEN first
    ELSE AddItems(first, run.items)

parse_spruceeats(ps, env, search_term) ==
    IF env.run.tmp # "ok" THEN ps
    ELSE SpruceEats(add_link(ps,
                        Truncate(Str("Click to see ") \o TermOrChicken(search_term)
                                 \o Str(" recipes on The Spruce Eats website"), 256),
                        <<>>,
                        Truncate(Str("https://www.thespruceeats.com/search?q=")
                                 \o TermOrChicken(search_term), 1024),
                        TRUE),
                    env.run)

\* parse_tasteofhome with fallback_title built
TasteOfHome(ps, env, search_term, fallback_title) ==
    TermFallbackParser(ps, env.run, fallback_title, fallback_title,
        Truncate(Str("https://www.tasteofhome.com/?s=") \o search_term, 512))

parse_tasteofhome(ps, env, search_term) ==
    TasteOfHome(ps, env, search_term,
                Truncate(Str("Search for \"") \o search_term
                         \o Str("\" on Taste of Home Website"), 512))

\* slug = (slug && *(slug + 1)) ? slug + 1 : url, slash the place of the last '/'
YummlySlug(url, slash) ==
    IF slash # 0 /\ slash < Len(url) THEN SubSeq(url, slash + 1, Len(url)) ELSE url

\* one matching anchor of parse_yummlyrecipes, its title built
YummlyAnchor(ps, url, title, search_term) ==
    IF search_term = <<>> \/ contains_word_case_insensitive(title, search_term)
    THEN add_link(ps, title, <<>>, url, FALSE)
    ELSE ps

\* the anchors parse_yummlyrecipes visits
RECURSIVE YummlyAnchors(_, _, _)
YummlyAnchors(ps, page, search_term) ==
    IF page = <<>> THEN ps
    ELSE YummlyAnchors(
             IF Head(page).href # NULL
                /\ strstr(Head(page).href, Str("/search/label/"))
                /\ strstr(Head(page).href, Str("yummlyrecipes.com"))
             THEN YummlyAnchor(ps, Head(page).href,
                      IF Head(page).text # NULL /\ Head(page).text # <<>>
                      THEN slug_to_title(Head(page).text, 256)
                      ELSE slug_to_title(YummlySlug(Head(page).href,
                                                    LastIndex(Head(page).href, {"/"})), 256),
                      search_term)
             ELSE ps,
             Tail(page), search_term)

\* added_fallback is the function's static flag; the result carries its new value
parse_yummlyrecipes(ps, env, search_term, added_fallback) ==
    [ps |-> YummlyAnchors(IF ~added_fallback
                          THEN add_link(ps, Str("Click to see Yummly Recipes Search Page"),
                                        <<>>, Str("https://www.yummlyrecipes.com/"), TRUE)
                          ELSE ps,
                          env.page, search_term),
     added_fallback |-> TRUE]

\* ------------------------------------------------------------------------
\* g_recipe_site_table: the url_pattern of a site is prefix "%s" suffix
\* ------------------------------------------------------------------------

Site(name, prefix, suffix) == [name |-> name, prefix |-> Str(prefix), suffix |-> Str(suffix)]

g_recipe_site_table ==
    << Site("AllRecipes", "https://www.allrecipes.com/search/results/?wt=", ""),
       Site("BBC Good Food", "https://www.bbcgoodfood.com/search?q=", ""),
       Site("Bon Appetit", "https://www.bonappetit.com/search/", ""),
       Site("Budget Bytes", "https://www.budgetbytes.com/?s=", ""),
       Site("Chowhound", "https://www.chowhound.com/search?query=", ""),
       Site("Cooks Illustrated / America's Test Kitchen",
            "https://www.cooksillustrated.com/search?q=", ""),
       Site("Delish", "https://www.delish.com/search/", "/"),
       Site("EatingWell", "https://www.eatingwell.com/search/?q=", ""),
       Site("Epicurious", "https://www.epicurious.com/search/", ""),
       Site("Food52", "https://food52.com/search?q=", ""),
       Site("Food Network", "https://www.foodnetwork.com/search/", "-"),
       Site("NY Times Cooking", "https://cooking.nytimes.com/search?q=", ""),
       Site("The Kitchn", "https://www.thekitchn.com/search?q=", ""),
       Site("Saveur", "https://www.saveur.com/search/", "/"),
       Site("Serious Eats", "https://www.seriouseats.com/search?q=", ""),
       Site("Simply Recipes", "https://www.simplyrecipes.com/search?q=", ""),
       Site("Smitten Kitchen", "https://smittenkitchen.com/?s=", ""),
       Site("The Spruce Eats", "https://www.thespruceeats.com/search?q=", ""),
       Site("Taste of Home", "https://www.tasteofhome.com/search/index?search=", ""),
       Site("Yummly", "https://www.yummlyrecipes.com/?q=", "") >>

\* g_strdup_printf(site->url_pattern, enc) of search_thread_func
SearchUrl(index, q) ==
    g_recipe_site_table[index + 1].prefix \o g_uri_escape_string(q)
    \o g_recipe_site_table[index + 1].suffix

\* site->parse_site(root, &results, link_set, q): the parser of row index;
\* the result carries the list, the set, the counter and the static flag
\* of parse_yummlyrecipes
ParseSite(index, ps, env, q, added_fallback) ==
    LET plain(p) == [ps |-> p, added_fallback |-> added_fallback]
    IN CASE index = 0 -> plain(parse_allrecipes(ps, env, q))
         [] index = 1 -> plain(parse_bbcgoodfood(ps, env, q))
         [] index = 2 -> plain(parse_bonappetit(ps, env, q))
         [] index = 3 -> plain(parse_budgetbytes(ps, env, q))
         [] index = 4 -> plain(parse_chowhound(ps, env, q))
         [] index = 5 -> plain(parse_cooksillustrated(ps, env, q))
         [] index = 6 -> plain(parse_delish(ps, env, q))
         [] index = 7 -> plain(parse_eatingwell(ps, env, q))
         [] index = 8 -> plain(parse_epicurious_wrapper(ps, env, q))
         [] index = 9 -> plain(parse_food52(ps, env, q))
         [] index = 10 -> plain(parse_foodnetwork(ps, env, q))
         [] index = 11 -> plain(parse_nyt(ps, env, q))
         [] index = 12 -> plain(parse_thekitchn(ps, env, q))
         [] index = 13 -> plain(parse_saveur(ps, env, q))
         [] index = 14 -> plain(parse_seriouseats(ps, env, q))
         [] index = 15 -> plain(parse_simplyrecipes(ps, env.page))
         [] index = 16 -> plain(parse_smittenkitchen(ps, env, q))
         [] index = 17 -> plain(parse_spruceeats(ps, env, q))
         [] index = 18 -> plain(parse_tasteofhome(ps, env, q))
         [] index = 19 -> parse_yummlyrecipes(ps, env, q, added_fallback)

\* the sites whose parser reads env.run, and those that walk env.page
ExtractorSites == {0, 1, 2, 3, 5, 6, 7, 9, 10, 11, 12, 14, 16, 17, 18}

PageSites == {8, 13, 15, 19}

\* ------------------------------------------------------------------------
\* The script file of an extractor (POSIX build): mkstemps creates it, and
\* it stays until a path of the parser calls unlink
\* ------------------------------------------------------------------------

\* the parsers that write their script to a temporary file (parse_nyt runs
\* a script that is installed)
ScriptSites == ExtractorSites \ {11}

\* after a failed fdopen: close(fd); return; with no unlink
CloseOnlySites == {0, 1, 2, 3, 5, 6, 16, 18}

\* after a failed popen: return; with no unlink (parse_spruceeats has its
\* unlink there under _WIN32 only)
NoUnlinkAfterPopen == {5, 17}

\* no unlink on any path: parse_cooksillustrated, parse_delish
NoUnlinkSites == {5, 6}

\* whether the script file still exists when the parser of row index returns
temp_file_left(index, run) ==
    IF index \notin ScriptSites \/ run.tmp = "mkstemps" THEN FALSE
    ELSE IF run.tmp = "fdopen" THEN index \in CloseOnlySites
    ELSE IF index \in NoUnlinkSites THEN TRUE
    ELSE IF ~run.popen THEN index \in NoUnlinkAfterPopen
    ELSE FALSE

\* ------------------------------------------------------------------------
\* Reading a list whose strings were freed (parse_nyt): what the reader
\* finds there is not defined.  The readings kept: the strings still
\* intact; every freed string holding what the last one written there
\* held; every freed string without its \x1f separator.
\* ------------------------------------------------------------------------

HasFreed(links) == \E i \in 1..Len(links) : links[i].freed

LastFreed(links) ==
    links[CHOOSE i \in 1..Len(links) :
              links[i].freed /\ \A j \in (i + 1)..Len(links) : ~links[j].freed]

ReadLinks(links) ==
    IF ~HasFreed(links) THEN {links}
    ELSE {links,
          [i \in 1..Len(links) |-> IF links[i].freed THEN LastFreed(links) ELSE links[i]],
          [i \in 1..Len(links) |-> IF links[i].freed THEN NoSeparator ELSE links[i]]}

\* ------------------------------------------------------------------------
\* Inputs: what the user types and selects, what the network and the
\* extractors answer
\* ------------------------------------------------------------------------

\* the texts the user types: nothing, a plain term, a term in paired quotes
Queries == {<<>>, Str("pie"), Str("\"pie\"")}

\* the sites the user selects in the orchestration
Sites == {0, 4, 15}

ItemList ==
    << Item(Str("Apple Pie 5"), Str("/r/1")),
       Item(Str("Stew"), Str("/r/2")),
       Item(Str("Pie"), Str("/r/1")) >>

Run(tmp, popen, status, json, items) ==
    [tmp |-> tmp, popen |-> popen, status |-> status, json |-> json, items |-> items]

\* the extractor answered with the first n items of ItemList
ArrayRun(n) == Run("ok", TRUE, 0, "array", SubSeq(ItemList, 1, n))

FailedRuns ==
    {Run("mkstemps", FALSE, 1, "empty", <<>>),
     Run("ok", FALSE, 1, "empty", <<>>),
     Run("ok", TRUE, 0, "invalid", <<>>)}

Runs == FailedRuns \cup {ArrayRun(n) : n \in 0..MaxItems}

AnchorList(index) ==
    CASE index = 8 ->
           << Anchor(Str("/recipes/food/views/pie"), Str("Apple Pie")),
              Anchor(Str("https://www.epicurious.com/recipes/food/views/stew"), NULL),
              Anchor(Str("/recipes/food/views/pie"), Str("Pie")) >>
      [] index = 13 ->
           << Anchor(Str("/recipe/apple-pie/"), NULL),
              Anchor(Str("https://www.saveur.com/article/stew"), Str(" Stew ")),
              Anchor(Str("/about"), Str("About")) >>
      [] index = 15 ->
           << Anchor(Str("https://www.simplyrecipes.com/recipes/pie"), Str("Apple Pie")),
              Anchor(Str("https://www.simplyrecipes.com/recipes/stew"), NULL),
              Anchor(Str("https://www.simplyrecipes.com/about"), Str("About")) >>
      [] OTHER ->
           << Anchor(Str("https://www.yummlyrecipes.com/search/label/ApplePie"), NULL),
              Anchor(Str("https://www.yummlyrecipes.com/search/label/Stew"), Str("beef_stew")),
              Anchor(NULL, Str("Home")) >>

Env(run, alt, playwright, curl, page) ==
    [run |-> run, alt |-> alt, playwright |-> playwright, curl |-> curl, page |-> page]

\* what the parser of row index can meet in the orchestration
Envs(index) ==
    IF index \in ExtractorSites
    THEN {Env(r, r, TRUE, "ok", <<>>) : r \in Runs}
    ELSE IF index \in PageSites
    THEN {Env(ArrayRun(0), ArrayRun(0), TRUE, "ok", SubSeq(AnchorList(index), 1, n)) :
              n \in 0..MaxItems}
    ELSE {Env(ArrayRun(0), ArrayRun(0), TRUE, "ok", <<>>)}

\* ------------------------------------------------------------------------
\* State
\* ------------------------------------------------------------------------

VARIABLES
    entry,                 \* text of w->entry
    combo,                 \* active row of w->combo
    ui_enabled,            \* sensitivity set_ui_enabled gave the widgets
    search_in_progress,
    pulse_timer_id,        \* w->pulse_timer_id, 0 when no timer
    quote_status,          \* w->quote_status
    status_label,          \* text of w->status_label (a tag of the message)
    listbox,               \* rows of w->listbox, first to last
    recipe_result_total,
    added_fallback,        \* the static flag of parse_yummlyrecipes
    workers,               \* the search threads, by the number of their search
    idle,                  \* results handed to g_idle_add, not yet dispatched
    stack,                 \* main thread: the handlers waiting in a nested main loop
    anims,                 \* the InsertAnimationData of the running timers
    nsearch,               \* searches started so far
    shown,                 \* what search_complete_cb showed for each search
    crashed,               \* the process was aborted (double free)
    pn,                    \* parser harness: invocations made
    pcall,                 \* parser harness: the last invocation
    rcall,                 \* ranking harness: the last query ranked
    dl,                    \* one download_html call: its MemoryBlock, its position
    tcall                  \* text harness: the last title split, query read, text tokenized

vars ==
    << entry, combo, ui_enabled, search_in_progress, pulse_timer_id, quote_status,
       status_label, listbox, recipe_result_total, added_fallback, workers, idle,
       stack, anims, nsearch, shown, crashed, pn, pcall, rcall,
       dl, tcall >>

widgets == << entry, combo >>

harness == << pn, pcall, rcall, dl, tcall >>

SearchIds == 1..MaxSearches

NoWorker ==
    [pc |-> "none", q |-> NULL, index |-> 0, url |-> NULL, scheduled |-> 0,
     fetched |-> "no", parsed |-> FALSE]

NotShown == [kind |-> "none"]

NoCall == [index |-> 0, q |-> <<>>, env |-> Env(ArrayRun(0), ArrayRun(0), TRUE, "ok", <<>>),
           before |-> FALSE, out |-> <<>>, set |-> {}, total |-> 0, read |-> <<>>,
           queue |-> <<>>, tmp_left |-> FALSE]

\* MemoryBlock chunk = {.data = NULL, .size = 0, .capacity = 0}; nul is the
\* index of the byte the callback last set to '\0', -1 when it set none
EmptyBlock == [data |-> FALSE, size |-> 0, capacity |-> 0, nul |-> -1]

\* block is the MemoryBlock as the call found it
NoWrite ==
    [len |-> 0, before |-> 0, ret |-> 0, free_mem |-> 0, realloc_ok |-> FALSE,
     block |-> EmptyBlock, at |-> -1]

\* download_html not called yet
NoDownload ==
    [pc |-> "idle", chunk |-> EmptyBlock, sent |-> 0, writes |-> 0, rejected |-> FALSE,
     last |-> NoWrite, rc |-> "none", ret |-> "none", freed |-> FALSE,
     parser_buffer |-> [data |-> FALSE, size |-> 0, capacity |-> DEFAULT_MEMORY_PARSER_SIZE]]

\* no text handled yet
NoText ==
    [title |-> <<>>, fixed |-> <<>>, q |-> <<>>, status |-> QUOTE_NONE, phrases |-> <<>>,
     decisive |-> NULL, phrase |-> <<>>, tokens |-> <<>>, n |-> 0]

\* no query ranked yet
NoRank == [q |-> <<>>, status |-> QUOTE_NONE, links |-> <<>>, queue |-> <<>>]

Init ==
    /\ entry = <<>>
    /\ combo = 0
    /\ ui_enabled = TRUE
    /\ search_in_progress = FALSE
    /\ pulse_timer_id = 0
    /\ quote_status = QUOTE_NONE
    /\ status_label = ""
    /\ listbox = <<>>
    /\ recipe_result_total = 0
    /\ added_fallback = FALSE
    /\ workers = [sid \in SearchIds |-> NoWorker]
    /\ idle = <<>>
    /\ stack = <<>>
    /\ anims = <<>>
    /\ nsearch = 0
    /\ shown = [sid \in SearchIds |-> NotShown]
    /\ crashed = FALSE
    /\ pn = 0
    /\ pcall = NoCall
    /\ rcall = NoRank
    /\ dl = NoDownload
    /\ tcall = NoText

\* ------------------------------------------------------------------------
\* The main thread.  A handler that spins a nested main loop
\* (while (gtk_events_pending()) gtk_main_iteration()) is two actions: the
\* part up to the loop, which leaves a frame on the stack, and the part after
\* it, which runs when the loop of the topmost frame finds nothing pending.
\* ------------------------------------------------------------------------

Top == stack[Len(stack)]

Pop == SubSeq(stack, 1, Len(stack) - 1)

Row(title, url, sid, fb, kind) ==
    [title |-> title, url |-> url, sid |-> sid, fb |-> fb, kind |-> kind]

\* the user types into the entry (editable only while the UI is enabled)
EditEntry(q) ==
    /\ ~crashed
    /\ ui_enabled
    /\ q # entry
    /\ entry' = q
    /\ UNCHANGED << combo, ui_enabled, search_in_progress, pulse_timer_id, quote_status,
                    status_label, listbox, recipe_result_total, added_fallback, workers,
                    idle, stack, anims, nsearch, shown, crashed, harness >>

\* the user selects a site in the combo box
SelectSite(index) ==
    /\ ~crashed
    /\ ui_enabled
    /\ index # combo
    /\ combo' = index
    /\ UNCHANGED << entry, ui_enabled, search_in_progress, pulse_timer_id, quote_status,
                    status_label, listbox, recipe_result_total, added_fallback, workers,
                    idle, stack, anims, nsearch, shown, crashed, harness >>

\* set_ui_enabled without "search_in_progress = !enabled"
set_ui_enabled_no_flag(enabled) ==
    /\ search_in_progress' = search_in_progress
    /\ ui_enabled' = enabled

\* set_ui_enabled(w, enabled)
set_ui_enabled(enabled) ==
    /\ search_in_progress' = ~enabled
    /\ ui_enabled' = enabled

\* "clicked" of the search button: initialize_on_search up to its nested loop
initialize_on_search ==
    /\ ~crashed
    /\ ui_enabled
    /\ IF entry = <<>>
       THEN /\ status_label' = "Please enter a recipe search term"
            /\ UNCHANGED << ui_enabled, search_in_progress, quote_status, listbox, stack,
                            nsearch >>
       ELSE /\ nsearch < MaxSearches
            /\ quote_status' = detect_quote_status(entry)
            /\ set_ui_enabled(FALSE)
            /\ listbox' = <<>>
            /\ status_label' = "Searching"
            /\ nsearch' = nsearch + 1
            /\ stack' = Append(stack, [fn |-> "initialize_on_search", sid |-> nsearch + 1])
    /\ UNCHANGED << widgets, pulse_timer_id, recipe_result_total, added_fallback, workers,
                    idle, anims, shown, crashed, harness >>

\* initialize_on_search after its nested loop: the pulse timer and the thread
LaunchThread ==
    /\ ~crashed
    /\ stack # <<>>
    /\ Top.fn = "initialize_on_search"
    /\ idle = <<>>
    /\ pulse_timer_id' = Top.sid
    /\ workers' = [workers EXCEPT ![Top.sid].pc = "start"]
    /\ stack' = Pop
    /\ UNCHANGED << widgets, ui_enabled, search_in_progress, quote_status, status_label,
                    listbox, recipe_result_total, added_fallback, idle, anims, nsearch,
                    shown, crashed, harness >>

\* ------------------------------------------------------------------------
\* The search thread: search_thread_func in three steps
\* ------------------------------------------------------------------------

NoEnv == Env(ArrayRun(0), ArrayRun(0), TRUE, "ok", <<>>)

Result(sid, success, results, url, status_message, cause, env) ==
    [sid |-> sid, success |-> success, results |-> results, url |-> url,
     status_message |-> status_message, cause |-> cause, env |-> env,
     index |-> workers[sid].index, q |-> workers[sid].q]

\* g_idle_add(search_complete_cb, result); return NULL;
Finish(sid, w, result) ==
    /\ idle' = Append(idle, result)
    /\ workers' = [workers EXCEPT ![sid] = [w EXCEPT !.pc = "done", !.scheduled = @ + 1]]

\* the counter reset, the reads of the entry and the combo box, the URL
\* (g_uri_escape_string and g_strdup_printf return NULL for no input the
\* entry can hold)
WorkerPrepare(sid) ==
    /\ ~crashed
    /\ workers[sid].pc = "start"
    /\ recipe_result_total' = 0
    /\ LET w == [workers[sid] EXCEPT !.q = entry, !.index = combo]
       IN IF entry = <<>>
          THEN Finish(sid, w, [Result(sid, FALSE, <<>>, NULL,
                                      "Please enter a recipe search term", "query", NoEnv)
                               EXCEPT !.q = entry, !.index = combo])
          ELSE IF combo < 0 \/ combo >= NumSites
          THEN Finish(sid, w, [Result(sid, FALSE, <<>>, NULL,
                                      "Please select a valid recipe site.", "site", NoEnv)
                               EXCEPT !.q = entry, !.index = combo])
          ELSE /\ workers' = [workers EXCEPT ![sid] =
                                 [w EXCEPT !.pc = "fetch", !.url = SearchUrl(combo, entry)]]
               /\ UNCHANGED idle
    /\ UNCHANGED << widgets, ui_enabled, search_in_progress, pulse_timer_id, quote_status,
                    status_label, listbox, added_fallback, stack, anims, nsearch, shown,
                    crashed, harness >>

\* WorkerFetch with the return after g_idle_add left out on the failure
\* paths: the thread goes on to the parser and schedules a second time
WorkerFetchTwice(sid, net) ==
    /\ ~crashed
    /\ workers[sid].pc = "fetch"
    /\ IF net = "ok"
       THEN /\ workers' = [workers EXCEPT ![sid].pc = "parse", ![sid].fetched = "ok"]
            /\ UNCHANGED idle
       ELSE /\ idle' = Append(idle, Result(sid, FALSE, <<>>, workers[sid].url,
                                           IF net = "fetch" THEN "Failed to fetch recipes."
                                           ELSE "Failed to parse HTML from site.", net, NoEnv))
            /\ workers' = [workers EXCEPT ![sid].pc = "parse", ![sid].fetched = "failed",
                                          ![sid].scheduled = @ + 1]
    /\ UNCHANGED << widgets, ui_enabled, search_in_progress, pulse_timer_id, quote_status,
                    status_label, listbox, recipe_result_total, added_fallback, stack,
                    anims, nsearch, shown, crashed, harness >>

\* download_html and gumbo_parse: net is "ok", "fetch" (download_html
\* returned NULL) or "gumbo" (gumbo_parse returned NULL)
WorkerFetch(sid, net) ==
    /\ ~crashed
    /\ workers[sid].pc = "fetch"
    /\ IF net = "ok"
       THEN /\ workers' = [workers EXCEPT ![sid].pc = "parse", ![sid].fetched = "ok"]
            /\ UNCHANGED idle
       ELSE Finish(sid, [workers[sid] EXCEPT !.fetched = "failed"],
                   Result(sid, FALSE, <<>>, workers[sid].url,
                          IF net = "fetch" THEN "Failed to fetch recipes."
                          ELSE "Failed to parse HTML from site.", net, NoEnv))
    /\ UNCHANGED << widgets, ui_enabled, search_in_progress, pulse_timer_id, quote_status,
                    status_label, listbox, recipe_result_total, added_fallback, stack,
                    anims, nsearch, shown, crashed, harness >>

\* what search_thread_func does with r, the parser's result
Parsed(sid, env, r) ==
    /\ recipe_result_total' = r.ps.total
    /\ added_fallback' = r.added_fallback
    /\ Finish(sid, [workers[sid] EXCEPT !.parsed = TRUE],
              Result(sid, TRUE, r.ps.out, workers[sid].url, "", "parsed", env))

\* the fresh link_set, site->parse_site(...), success = TRUE, g_idle_add
WorkerParse(sid, env) ==
    /\ ~crashed
    /\ workers[sid].pc = "parse"
    /\ Parsed(sid, env, ParseSite(workers[sid].index,
                                  [NewParse EXCEPT !.total = recipe_result_total], env,
                                  workers[sid].q, added_fallback))
    /\ UNCHANGED << widgets, ui_enabled, search_in_progress, pulse_timer_id, quote_status,
                    status_label, listbox, stack, anims, nsearch, shown, crashed, harness >>

\* ------------------------------------------------------------------------
\* search_complete_cb, show_results, insert_next_button
\* ------------------------------------------------------------------------

FallbackDescription ==
    Str("Matching recipes not found. Click to open the main food website.")

Outcome(kind, result, links) ==
    [kind |-> kind, links |-> links, cause |-> result.cause, index |-> result.index,
     q |-> result.q, env |-> result.env]

\* the idle source fires: search_complete_cb, on its success branch up to
\* the nested loop of show_results, on the other branches to its end
search_complete_cb ==
    /\ ~crashed
    /\ idle # <<>>
    /\ LET result == Head(idle)
       IN /\ idle' = Tail(idle)
          /\ pulse_timer_id' = 0
          /\ set_ui_enabled(TRUE)
          /\ IF result.success /\ result.results # <<>>
             THEN /\ listbox' = <<>>
                  /\ stack' = Append(stack, [fn |-> "search_complete_cb", sid |-> result.sid,
                                             result |-> result, q |-> entry,
                                             quote_status |-> quote_status])
                  /\ UNCHANGED << status_label, shown >>
             ELSE IF result.url # NULL /\ result.results = <<>>
             THEN /\ listbox' = << Row(FallbackDescription, result.url, result.sid, TRUE,
                                       "fallback") >>
                  /\ status_label' = ""
                  /\ shown' = [shown EXCEPT ![result.sid] =
                                  Outcome("fallback", result,
                                          << [title |-> FallbackDescription,
                                              url |-> result.url, fb |-> TRUE] >>)]
                  /\ UNCHANGED stack
             ELSE /\ listbox' = <<>>
                  /\ status_label' = result.status_message
                  /\ shown' = [shown EXCEPT ![result.sid] = Outcome("failure", result, <<>>)]
                  /\ UNCHANGED stack
    /\ UNCHANGED << widgets, quote_status, recipe_result_total, added_fallback, workers,
                    anims, nsearch, crashed, harness >>

\* the end of show_results: the children destroyed, the timer of the queue
Queued(queue) ==
    /\ listbox' = <<>>
    /\ anims' = Append(anims, [sid |-> Top.sid, recipe_queue |-> queue])
    /\ shown' = [shown EXCEPT ![Top.sid] =
                    Outcome("success", Top.result,
                            [i \in 1..Len(queue) |->
                                [title |-> queue[i].title, url |-> queue[i].url,
                                 fb |-> queue[i].fb]])]

\* the rest of show_results and of search_complete_cb once the nested loop
\* has run dry.  search_term points into the entry's buffer: after an edit
\* made during the loop it reads the old or the new text.  The list's freed
\* strings are read, then freed again by g_list_free_full.
ShowResults ==
    /\ ~crashed
    /\ stack # <<>>
    /\ Top.fn = "search_complete_cb"
    /\ idle = <<>>
    /\ \E search_term \in {Top.q, entry}, links \in ReadLinks(Top.result.results),
          abort \in {FALSE, HasFreed(Top.result.results)} :
          /\ Queued(show_results(links, search_term, Top.quote_status))
          /\ crashed' = abort
    /\ status_label' = ""
    /\ stack' = Pop
    /\ UNCHANGED << widgets, ui_enabled, search_in_progress, pulse_timer_id, quote_status,
                    recipe_result_total, added_fallback, workers, idle, nsearch, harness >>

\* the 100 ms timer of one animation fires
insert_next_button(k) ==
    /\ ~crashed
    /\ k \in 1..Len(anims)
    /\ IF anims[k].recipe_queue = <<>>
       THEN /\ anims' = SubSeq(anims, 1, k - 1) \o SubSeq(anims, k + 1, Len(anims))
            /\ UNCHANGED listbox
       ELSE LET ri == Head(anims[k].recipe_queue)
            IN /\ listbox' = Append(listbox, Row(ri.title, ri.url, anims[k].sid, ri.fb,
                                                 "recipe"))
               /\ anims' = [anims EXCEPT ![k].recipe_queue = Tail(@)]
    /\ UNCHANGED << widgets, ui_enabled, search_in_progress, pulse_timer_id, quote_status,
                    status_label, recipe_result_total, added_fallback, workers, idle,
                    stack, nsearch, shown, crashed, harness >>

\* ------------------------------------------------------------------------
\* What each thread reads or writes outside its own locals
\* ------------------------------------------------------------------------

\* the next step of the search thread of sid: at its start the counter
\* reset, gtk_entry_get_text, gtk_combo_box_get_active and the site name;
\* in download_html the site name (the callback prints it); in the parser
\* the counter (add_link) and q, which points at the text of the entry
WorkerTouches(sid) ==
    IF crashed THEN {}
    ELSE IF workers[sid].pc = "start"
    THEN {"recipe_result_total", "entry", "combo", "g_current_website_name"}
    ELSE IF workers[sid].pc = "fetch" THEN {"g_current_website_name"}
    ELSE IF workers[sid].pc = "parse" THEN {"recipe_result_total", "entry"}
    ELSE {}

\* the handlers the main loop can run now: the user's edits and the click
\* while the controls are sensitive; search_complete_cb, which reads the
\* entry on its success branch; show_results after its nested loop, which
\* reads search_term, the text of the entry
MainTouches ==
    IF crashed THEN {}
    ELSE (IF ui_enabled THEN {"entry", "combo"} ELSE {})
         \cup (IF idle # <<>> /\ Head(idle).success /\ Head(idle).results # <<>>
               THEN {"entry"} ELSE {})
         \cup (IF stack # <<>> /\ Top.fn = "search_complete_cb" /\ idle = <<>>
               THEN {"entry"} ELSE {})

Next ==
    \/ \E q \in Queries : EditEntry(q)
    \/ \E index \in Sites : SelectSite(index)
    \/ initialize_on_search
    \/ LaunchThread
    \/ \E sid \in SearchIds : WorkerPrepare(sid)
    \/ \E sid \in SearchIds, net \in {"ok", "fetch", "gumbo"} : WorkerFetch(sid, net)
    \/ \E sid \in SearchIds : \E env \in Envs(workers[sid].index) : WorkerParse(sid, env)
    \/ search_complete_cb
    \/ ShowResults
    \/ \E k \in 1..MaxSearches : insert_next_button(k)

Spec == Init /\ [][Next]_vars

\* ------------------------------------------------------------------------
\* Progress.  The main loop dispatches its idle sources and timers, the
\* nested loops run dry, a thread created runs, and curl_easy_perform
\* returns within CURLOPT_TIMEOUT; the user owes no step.  Inside a parser
\* the thread waits for the extractor in fread, fgets, pclose or system():
\* it returns when the extractor exits, and waits for ever when it does not.
\* ------------------------------------------------------------------------

\* the parsers whose command line puts no limit on the extractor
\* (parse_cooksillustrated alone prefixes its command with "timeout 60")
UnboundedSites == ExtractorSites \ {5}

\* the extractor neither answers nor exits: the thread stays in the parser
ExtractorHangs(sid) ==
    /\ ~crashed
    /\ workers[sid].pc = "parse"
    /\ workers[sid].index \in UnboundedSites
    /\ workers' = [workers EXCEPT ![sid].pc = "blocked"]
    /\ UNCHANGED << widgets, ui_enabled, search_in_progress, pulse_timer_id, quote_status,
                    status_label, listbox, recipe_result_total, added_fallback, idle,
                    stack, anims, nsearch, shown, crashed, harness >>

NextL ==
    \/ Next
    \/ \E sid \in SearchIds : ExtractorHangs(sid)

\* a step of the main loop is possible: an idle source or a timer is due,
\* or a nested loop has run dry
MainLoopCanStep ==
    ~crashed /\ (idle # <<>> \/ stack # <<>> \/ anims # <<>>)

\* the step taken is one of the main loop: search_complete_cb takes a result
\* off the idle queue, LaunchThread and ShowResults leave their nested loop,
\* insert_next_button works on its queue
MainLoopStep ==
    Len(idle') < Len(idle) \/ Len(stack') < Len(stack) \/ anims' # anims

\* a search thread is runnable
ThreadCanStep ==
    ~crashed /\ \E sid \in SearchIds : workers[sid].pc \in {"start", "fetch", "parse"}

\* the step taken is one of a search thread
ThreadStep ==
    \E sid \in SearchIds :
        workers[sid].pc \in {"start", "fetch", "parse"}
            /\ workers'[sid].pc # workers[sid].pc

\* weak fairness of the main loop and of the threads.  For the steps that
\* run a parser or the ranking, WF is written out with the state predicate
\* that says when the step is possible: the one who steps either is unable
\* to step infinitely often or steps infinitely often
Fairness ==
    /\ WF_vars(LaunchThread)
    /\ ([]<>~MainLoopCanStep) \/ ([]<><<MainLoopStep>>_vars)
    /\ ([]<>~ThreadCanStep) \/ ([]<><<ThreadStep>>_vars)

SpecL == Init /\ [][NextL]_vars /\ Fairness

\* ------------------------------------------------------------------------
\* The parsers one search after another, with nothing of the window in
\* between: the steps of search_thread_func from the counter reset to the
\* parser's return, and the ranking of show_results on what it returned
\* ------------------------------------------------------------------------

\* every row of g_recipe_site_table
AllSites == 0..(NumSites - 1)

\* a plain term and a term in paired quotes; for Food Network also the term
\* parse_foodnetwork expands
ParserQueries(index) ==
    {Str("pie"), Str("\"pie\"")} \cup (IF index = 10 THEN {Str("chili")} ELSE {})

\* the decimal digits of i, 0 <= i <= 99
Num(i) == << SubSeq("0123456789", (i \div 10) + 1, (i \div 10) + 1),
             SubSeq("0123456789", (i % 10) + 1, (i % 10) + 1) >>

\* an extractor that answers with one item more than MAX_RESULTS
BigItems ==
    [i \in 1..(MAX_RESULTS + 1) |-> Item(Str("Pie ") \o Num(i), Str("/r/") \o Num(i))]

BigRun == Run("ok", TRUE, 0, "array", BigItems)

\* the long answer goes to a parser built on add_link and to parse_nyt
ParserRuns(index) ==
    FailedRuns \cup {Run("fdopen", FALSE, 1, "empty", <<>>)}
    \cup {ArrayRun(n) : n \in 0..Len(ItemList)}
    \cup (IF index \in {0, 11} THEN {BigRun} ELSE {})

\* what the parser of row index can meet
ParserEnvs(index) ==
    IF index \in ExtractorSites
    THEN {Env(r, r, pw, "ok", <<>>) :
              r \in ParserRuns(index), pw \in IF index = 7 THEN BOOLEAN ELSE {TRUE}}
    ELSE IF index \in PageSites
    THEN {Env(ArrayRun(0), ArrayRun(0), TRUE, c, SubSeq(AnchorList(index), 1, n)) :
              n \in 0..Len(AnchorList(index)),
              c \in IF index = 13 THEN {"ok", "init", "fetch"} ELSE {"ok"}}
    ELSE {NoEnv}

\* what the search keeps of r, the parser's result; read is what show_results
\* finds in the list
Called(index, q, env, before, r) ==
    /\ recipe_result_total' = r.ps.total
    /\ added_fallback' = r.added_fallback
    /\ \E read \in ReadLinks(r.ps.out) :
          pcall' = [index |-> index, q |-> q, env |-> env, before |-> before,
                    out |-> r.ps.out, set |-> r.ps.set, total |-> r.ps.total,
                    read |-> read,
                    queue |-> show_results(read, q, detect_quote_status(q)),
                    tmp_left |-> temp_file_left(index, env.run)]

\* recipe_result_total = 0, a fresh link_set, site->parse_site(...)
ParserCall(index, q, env) ==
    /\ pn < MaxCalls
    /\ pn' = pn + 1
    /\ Called(index, q, env, added_fallback,
              ParseSite(index, NewParse, env, q, added_fallback))
    /\ UNCHANGED << widgets, ui_enabled, search_in_progress, pulse_timer_id, quote_status,
                    status_label, listbox, workers, idle, stack, anims, nsearch, shown,
                    crashed, rcall, dl, tcall >>

NextP == \E index \in AllSites :
             \E q \in ParserQueries(index), env \in ParserEnvs(index) :
                 ParserCall(index, q, env)

SpecP == Init /\ [][NextP]_vars

\* ------------------------------------------------------------------------
\* download_html: curl_easy_perform hands the body to memory_write_callback
\* chunk by chunk and stops the transfer with CURLE_WRITE_ERROR at the first
\* call that returns another number than the length it was given
\* ------------------------------------------------------------------------

\* return 0: the block is left as it was; at is the offset in m->data the
\* chunk was copied to, -1 when nothing was copied
Rejected(m) == [m |-> m, ret |-> 0, at |-> -1]

\* Stored without m->data[m->size] = '\0'
StoredUnterminated(m, realsize) ==
    [m |-> [m EXCEPT !.size = @ + realsize], ret |-> realsize, at |-> m.size]

\* memcpy(m->data + m->size, ...); m->size += realsize; m->data[m->size] = '\0'
Stored(m, realsize) ==
    [m |-> [m EXCEPT !.size = @ + realsize, !.nul = m.size + realsize], ret |-> realsize,
     at |-> m.size]

\* while (new_capacity < required_size) ...
RECURSIVE Grow(_, _)
Grow(new_capacity, required_size) ==
    IF new_capacity >= required_size THEN new_capacity
    ELSE IF new_capacity > MAX_DOWNLOAD_SIZE \div 2 THEN MAX_DOWNLOAD_SIZE
    ELSE Grow(new_capacity * 2, required_size)

\* Resized with m->capacity = new_capacity set before realloc is tried
ResizedEarly(m, realsize, new_capacity, free_mem, realloc_ok) ==
    IF new_capacity = 0 THEN Rejected(m)
    ELSE IF free_mem < new_capacity THEN Rejected(m)
    ELSE IF ~realloc_ok THEN Rejected([m EXCEPT !.capacity = new_capacity])
    ELSE Stored([m EXCEPT !.data = TRUE, !.capacity = new_capacity], realsize)

\* the branch required_size > m->capacity; free_mem is what get_free_memory
\* returns, realloc_ok whether realloc succeeds
Resized(m, realsize, new_capacity, free_mem, realloc_ok) ==
    IF new_capacity = 0 THEN Rejected(m)
    ELSE IF free_mem < new_capacity THEN Rejected(m)
    ELSE IF ~realloc_ok THEN Rejected(m)
    ELSE Stored([m EXCEPT !.data = TRUE, !.capacity = new_capacity], realsize)

\* memory_write_callback with the byte of the terminator left out of
\* required_size in the test against MAX_DOWNLOAD_SIZE
memory_write_callback_no_room(m, realsize, free_mem, realloc_ok) ==
    IF m.data /\ m.capacity = 0 THEN Rejected(m)
    ELSE IF m.size + realsize > MAX_DOWNLOAD_SIZE THEN Rejected(m)
    ELSE IF m.size + realsize + 1 > m.capacity
         THEN Resized(m, realsize,
                      Grow(IF m.capacity > 0 THEN m.capacity ELSE DEFAULT_MEMORY_PARSER_SIZE,
                           m.size + realsize + 1),
                      free_mem, realloc_ok)
    ELSE Stored(m, realsize)

\* the lengths drawn stay far below SIZE_MAX - m->size - 1, the overflow
\* guard never fires
memory_write_callback(m, realsize, free_mem, realloc_ok) ==
    IF m.data /\ m.capacity = 0 THEN Rejected(m)
    ELSE IF m.size + realsize + 1 > MAX_DOWNLOAD_SIZE THEN Rejected(m)
    ELSE IF m.size + realsize + 1 > m.capacity
         THEN Resized(m, realsize,
                      Grow(IF m.capacity > 0 THEN m.capacity ELSE DEFAULT_MEMORY_PARSER_SIZE,
                           m.size + realsize + 1),
                      free_mem, realloc_ok)
    ELSE Stored(m, realsize)

\* the lengths of the chunks handed over: nothing, a byte, one first tier,
\* a quarter of the cap and a byte less, half the cap, more than the cap
ChunkLens ==
    {0, 1, DEFAULT_MEMORY_PARSER_SIZE, MAX_DOWNLOAD_SIZE \div 4,
     (MAX_DOWNLOAD_SIZE \div 4) - 1, MAX_DOWNLOAD_SIZE \div 2, MAX_DOWNLOAD_SIZE + 1}

\* what get_free_memory reports: nothing (its answer where it cannot tell),
\* less than the cap, more than the cap
FreeMemory == {0, MAX_DOWNLOAD_SIZE \div 4, 2 * MAX_DOWNLOAD_SIZE}

OtherFrame ==
    UNCHANGED << widgets, ui_enabled, search_in_progress, pulse_timer_id, quote_status,
                 status_label, listbox, recipe_result_total, added_fallback, workers,
                 idle, stack, anims, nsearch, shown, crashed, pn, pcall, rcall, tcall >>

\* total_ram as the system call reports it, 0 when it fails; the tiers are
\* chosen at 128ULL << 20 and 512ULL << 20
detect_initial_capacity(total_ram) ==
    IF total_ram = 0 THEN DEFAULT_MEMORY_PARSER_SIZE
    ELSE IF total_ram < 134217728 THEN LOW_CAPACITY_PARSER_RAM_KB
    ELSE IF total_ram < 536870912 THEN MID_CAPACITY_PARSER_RAM_KB
    ELSE HIGH_CAPACITY_PARSER_RAM_KB

\* the RAM of the machine: not detected, 64 MiB, 256 MiB, 1 GiB
TotalRam == {0, 67108864, 268435456, 1073741824}

\* parser_buffer.capacity = detect_initial_capacity() of main, then
\* download_html up to curl_easy_perform: its chunk is a block of its own,
\* {.data = NULL, .size = 0, .capacity = 0}
StartDownload(init_ok, total_ram) ==
    /\ dl.pc = "idle"
    /\ dl' = [dl EXCEPT !.pc = IF init_ok THEN "perform" ELSE "returned",
                        !.ret = IF init_ok THEN @ ELSE "NULL",
                        !.chunk = EmptyBlock,
                        !.parser_buffer.capacity = detect_initial_capacity(total_ram)]
    /\ OtherFrame

\* the block and the counters after a call of the callback that returned r
Written(len, free_mem, realloc_ok, r) ==
    dl' = [dl EXCEPT !.chunk = r.m, !.sent = @ + len, !.writes = @ + 1,
                     !.rejected = (r.ret # len),
                     !.last = [len |-> len, before |-> dl.chunk.size, ret |-> r.ret,
                               free_mem |-> free_mem, realloc_ok |-> realloc_ok,
                               block |-> dl.chunk, at |-> r.at]]

\* curl_easy_perform calls the write callback with the next chunk
WriteChunk(len, free_mem, realloc_ok) ==
    /\ dl.pc = "perform"
    /\ ~dl.rejected
    /\ dl.writes < MaxWrites
    /\ Written(len, free_mem, realloc_ok,
               memory_write_callback(dl.chunk, len, free_mem, realloc_ok))
    /\ OtherFrame

\* FinishDownload without "if (rc != CURLE_OK) { free(chunk.data); return NULL; }"
FinishDownloadKeep(rc) ==
    /\ dl.pc = "perform"
    /\ dl.rejected => rc = "CURLE_WRITE_ERROR"
    /\ ~dl.rejected => rc # "CURLE_WRITE_ERROR"
    /\ dl' = [dl EXCEPT !.pc = "returned", !.rc = rc,
                        !.ret = IF dl.chunk.data THEN "data" ELSE "NULL"]
    /\ OtherFrame

\* curl_easy_perform returns rc; download_html from there to its return
FinishDownload(rc) ==
    /\ dl.pc = "perform"
    /\ dl.rejected => rc = "CURLE_WRITE_ERROR"
    /\ ~dl.rejected => rc # "CURLE_WRITE_ERROR"
    /\ dl' = IF rc # "CURLE_OK"
             THEN [dl EXCEPT !.pc = "returned", !.rc = rc, !.ret = "NULL", !.freed = TRUE]
             ELSE [dl EXCEPT !.pc = "returned", !.rc = rc,
                             !.ret = IF dl.chunk.data THEN "data" ELSE "NULL"]
    /\ OtherFrame

NextD ==
    \/ \E init_ok \in BOOLEAN, total_ram \in TotalRam : StartDownload(init_ok, total_ram)
    \/ \E len \in ChunkLens, free_mem \in FreeMemory, realloc_ok \in BOOLEAN :
           WriteChunk(len, free_mem, realloc_ok)
    \/ \E rc \in {"CURLE_OK", "CURLE_WRITE_ERROR", "CURLE_OPERATION_TIMEDOUT"} :
           FinishDownload(rc)

SpecD == Init /\ [][NextD]_vars

\* ------------------------------------------------------------------------
\* The query interpreter and the ranking alone: what initialize_on_search
\* makes of the text of the entry (w->quote_status) and what show_results
\* makes of a list of candidates under it
\* ------------------------------------------------------------------------

\* a left and a right curly double quote, UTF-8
LeftCurly == <<"E2", "80", "9C">>

RightCurly == <<"E2", "80", "9D">>

\* the texts ranked: no quote, paired and unpaired quotes of both kinds,
\* two decisive tokens, stop words only, curly quotes
RankQueries ==
    {Str("pie"), Str("\"pie\""), Str("\"pie"), Str("'pie'"), Str("mom's pie"),
     Str("mom's \"pie\""), Str("\"mom's pie"), Str("\"a\" \"pie"),
     Str("\"apple pie\""), Str("\"roast chicken\""), Str("\"the\""),
     LeftCurly \o Str("pie") \o RightCurly}

\* the candidates a parser handed over, in the order it found them
RankEntries ==
    << Entry(Str("Roasted Chicken Thighs"), Str("/r/1"), FALSE),
       Entry(Str("Apple Pie"), Str("/r/2"), FALSE),
       Entry(Str("Pie"), Str("/r/3"), FALSE),
       Entry(Str("Stew"), Str("/r/4"), FALSE) >>

\* the entries of s at the places of the set keep, in the order of s
RECURSIVE Pick(_, _, _)
Pick(s, keep, i) ==
    IF i > Len(s) THEN <<>>
    ELSE (IF i \in keep THEN <<s[i]>> ELSE <<>>) \o Pick(s, keep, i + 1)

RankLists == {Pick(RankEntries, keep, 1) : keep \in SUBSET (1..Len(RankEntries))}

\* w->quote_status = detect_quote_status(q); ... show_results(..., q, w->quote_status)
Ranked(q, status, links) ==
    rcall' = [q |-> q, status |-> status, links |-> links,
              queue |-> show_results(links, q, status)]

RankCall(q, links) ==
    /\ Ranked(q, detect_quote_status(q), links)
    /\ UNCHANGED << widgets, ui_enabled, search_in_progress, pulse_timer_id, quote_status,
                    status_label, listbox, recipe_result_total, added_fallback, workers,
                    idle, stack, anims, nsearch, shown, crashed, pn, pcall, dl, tcall >>

NextQ == \E q \in RankQueries, links \in RankLists : RankCall(q, links)

SpecQ == Init /\ [][NextQ]_vars

\* ------------------------------------------------------------------------
\* The text functions on their own: split_title_and_digits as
\* parse_allrecipes calls it on a title, the query as initialize_on_search
\* and show_results read it, tokenize_and_filter_stop_words on a phrase
\* ------------------------------------------------------------------------

\* titles an extractor hands over: a count glued to a word, digits in a
\* word, a count in parentheses, no digit, a count after a space, a digit
\* in front, nothing
Titles ==
    {Str("Amazing Ribs1,234 Ratings"), Str("Rib1234"), Str("Amazing Ribs(1,234 Ratings)"),
     Str("Taco Recipes"), Str("Amazing Ribs 1,234 Ratings"), Str("5 Ribs"),
     Str("Ribs!12"), <<>>}

\* the texts of the entry: no quote, pairs of both kinds, two pairs, an
\* unmatched quote before and after a pair, an empty pair, a pair of
\* blanks, upper case and blanks inside a pair, curly quotes
TextQueries ==
    {Str("pie"), Str("\"pie\""), Str("'pie'"), Str("\"apple pie\" 'Stew'"),
     Str("mom's \"pie\""), Str("\"pie\" mom's"), Str("\"pie"), Str("\"\" pie"),
     Str("\" \""), Str("\" Apple  PIE \""), Str("\"the\""), Str("'it's'"),
     LeftCurly \o Str("pie") \o RightCurly}

\* the phrases tokenized: words, stop words in both cases, blanks in a
\* row and at the ends, a tab between two words, nothing
TokenPhrases ==
    {Str("apple pie"), Str("The Pie"), Str("pie and  stew "), Str(" of the"),
     Str("Roast Chicken with Rice"), <<"a", "p", "p", "l", "e", "\t", "p", "i", "e">>,
     Str("for"), <<>>}

TextFrame ==
    UNCHANGED << widgets, ui_enabled, search_in_progress, pulse_timer_id, quote_status,
                 status_label, listbox, recipe_result_total, added_fallback, workers,
                 idle, stack, anims, nsearch, shown, crashed, pn, pcall, rcall, dl >>

\* char *fixed_title = split_title_and_digits(title);
SplitTitle(title) ==
    /\ tcall' = [tcall EXCEPT !.title = title, !.fixed = split_title_and_digits(title),
                              !.n = 1]
    /\ TextFrame

\* detect_quote_status(q) of initialize_on_search, extract_quoted_phrases
\* and the partial_search_term of show_results
Interpret(q) ==
    /\ tcall' = [tcall EXCEPT !.q = q, !.status = detect_quote_status(q),
                              !.phrases = extract_quoted_phrases(q),
                              !.decisive = partial_search_term(q, detect_quote_status(q)),
                              !.n = 2]
    /\ TextFrame

\* tokenize_and_filter_stop_words(phrase)
Tokenize(phrase) ==
    /\ tcall' = [tcall EXCEPT !.phrase = phrase,
                              !.tokens = tokenize_and_filter_stop_words(phrase), !.n = 3]
    /\ TextFrame

NextT ==
    \/ \E title \in Titles : SplitTitle(title)
    \/ \E q \in TextQueries : Interpret(q)
    \/ \E phrase \in TokenPhrases : Tokenize(phrase)

SpecT == Init /\ [][NextT]_vars

\* ------------------------------------------------------------------------
\* Properties of the orchestration (Spec)
\* ------------------------------------------------------------------------

\* the outcomes of search sid waiting in the idle queue
Pending(sid) == Cardinality({i \in 1..Len(idle) : idle[i].sid = sid})

\* search_complete_cb has been entered for search sid
Entered(sid) ==
    \/ shown[sid].kind # "none"
    \/ \E i \in 1..Len(stack) : stack[i].fn = "search_complete_cb" /\ stack[i].sid = sid

\* C1: for every search started, search_thread_func schedules
\* search_complete_cb exactly once on every path.  A thread that has
\* returned has called g_idle_add once; a thread that has not returned has
\* not called it; the call comes only when no URL was built, or the fetch or
\* gumbo_parse failed, or the fetch succeeded and the parser returned; and
\* the outcomes waiting plus the one the callback took are as many as the
\* thread scheduled.
C1_ScheduledExactlyOnce ==
    \A sid \in SearchIds :
        /\ workers[sid].pc = "done" => workers[sid].scheduled = 1
        /\ workers[sid].pc # "done" => workers[sid].scheduled = 0
        /\ workers[sid].scheduled > 0 =>
              \/ workers[sid].url = NULL
              \/ workers[sid].fetched = "failed" /\ ~workers[sid].parsed
              \/ workers[sid].fetched = "ok" /\ workers[sid].parsed
        /\ Pending(sid) + (IF Entered(sid) THEN 1 ELSE 0) = workers[sid].scheduled

\* C1 witness: one thread has returned after its parser ran, another after
\* its fetch failed, and the callback of the first has shown its outcome
C1_Witness ==
    \E a, b \in SearchIds :
        /\ workers[a].pc = "done" /\ workers[a].parsed /\ shown[a].kind # "none"
        /\ workers[b].pc = "done" /\ workers[b].fetched = "failed"

\* search sid is in flight: its thread was launched and search_complete_cb
\* has not yet run to its end for it
InFlight(sid) == workers[sid].pc # "none" /\ shown[sid].kind = "none"

\* C2: at most one search is in flight at any time: from the launch of a
\* worker thread until search_complete_cb has run for it, no second worker
\* is launched.
C2_OneSearchInFlight == Cardinality({sid \in SearchIds : InFlight(sid)}) <= 1

\* C3: the consumer is never shown an empty success: a search that completed
\* with success and went through the ranking of show_results shows at least
\* one link, the fallback link when the filter removed every candidate.
C3_NoEmptySuccess ==
    \A sid \in SearchIds : shown[sid].kind = "success" => shown[sid].links # <<>>

\* C4: the result list holds entries of at most one search and no entry of
\* an earlier search is inserted once a later search has been started: every
\* row of the list belongs to the latest search started.
C4_RowsOfLatestSearch ==
    \A i \in 1..Len(listbox) : listbox[i].sid = nsearch

\* the parser of the outcome o met an extractor that failed: the script file
\* could not be written, the process could not be started, or its output
\* was not a JSON array
ExtractorFailed(o) ==
    o.cause = "parsed" /\ o.index \in ExtractorSites /\ o.env.run \in FailedRuns

\* one link, a fallback link
OneFallbackLink(o) == Len(o.links) = 1 /\ o.links[1].fb

\* C5: fallback takes precedence over failure: once the URL is built, a
\* fetch error, an HTML-parse error or an extractor error ends in one
\* fallback link; a status message is shown only when no URL was built.
C5_FallbackBeforeFailure ==
    \A sid \in SearchIds :
        /\ shown[sid].kind = "failure" => shown[sid].cause \in {"query", "site"}
        /\ shown[sid].kind # "none" /\ shown[sid].cause \in {"fetch", "gumbo"}
              => shown[sid].kind = "fallback" /\ OneFallbackLink(shown[sid])
        /\ shown[sid].kind # "none" /\ ExtractorFailed(shown[sid])
              => OneFallbackLink(shown[sid])

\* the url names the query: it holds the raw text or its escaped form
BuiltFromQuery(url, q) == strstr(url, q) \/ strstr(url, g_uri_escape_string(q))

\* C6: when the extractor of a site parser fails (cannot be started, no
\* output, output that is not a JSON array) the search shows a single
\* fallback link, to the site's search URL built from the raw query.
C6_ExtractorFailureLink ==
    \A sid \in SearchIds :
        shown[sid].kind # "none" /\ ExtractorFailed(shown[sid])
            => /\ OneFallbackLink(shown[sid])
               /\ BuiltFromQuery(shown[sid].links[1].url, shown[sid].q)

\* C21: while a search is in flight the search thread and the main thread
\* share no mutable data: whatever the next step of the thread reads or
\* writes (the widgets, recipe_result_total, g_current_website_name), no
\* handler the main loop can run at the same time reads or writes it.
C21_NothingShared ==
    \A sid \in SearchIds : WorkerTouches(sid) \cap MainTouches = {}

\* C29: no search is started before the completion handling of the search
\* before it has run to its end: while search_complete_cb is between
\* set_ui_enabled(w, TRUE) and its return, the nested loop of show_results
\* included, initialize_on_search is not invoked, so the search whose
\* completion is being handled is still the last one started.
C29_NoSearchDuringCompletion ==
    \A i \in 1..Len(stack) :
        stack[i].fn = "search_complete_cb"
            => /\ nsearch = stack[i].sid
               /\ \A j \in (i + 1)..Len(stack) : stack[j].fn # "initialize_on_search"

\* a search thread is running or its outcome waits in the idle queue
Busy ==
    \E sid \in SearchIds :
        workers[sid].pc \in {"start", "fetch", "parse"} \/ Pending(sid) > 0

\* the searches whose completion callback has been entered
Completed == Cardinality({sid \in SearchIds : Entered(sid)})

\* initialize_on_search has accepted a request and is in its event loop,
\* the timer and the thread not yet created
Launching == stack # <<>> /\ Top.fn = "initialize_on_search"

\* C30 as claimed: in every reachable state search_in_progress is TRUE, the
\* controls are disabled and the pulse timer is registered exactly when a
\* search thread is running or its completion callback is pending.
C30_FlagsExactlyWhenBusy ==
    /\ search_in_progress <=> Busy
    /\ ~ui_enabled <=> Busy
    /\ pulse_timer_id # 0 <=> Busy

\* C30, amended: search_in_progress is TRUE and the controls are disabled
\* exactly from the request initialize_on_search accepts to the entry of
\* its completion callback, that is while the thread is being launched, is
\* running or has its callback pending; the pulse timer is registered
\* exactly when the thread is running or its callback is pending; a
\* rejected request changes none of them and each started search sets them
\* once and clears them once: the searches started are the completions
\* entered, plus one while the flag is set.
C30_FlagsFollowTheSearch ==
    /\ search_in_progress = ~ui_enabled
    /\ search_in_progress <=> (Busy \/ Launching)
    /\ pulse_timer_id # 0 <=> Busy
    /\ nsearch = Completed + (IF search_in_progress THEN 1 ELSE 0)

\* C30 witness: the first search was completed, which cleared the flag and
\* the timer, and the thread of the second is running with both set again
C30_Witness ==
    /\ nsearch = 2
    /\ Completed = 1
    /\ workers[2].pc = "fetch"
    /\ search_in_progress
    /\ pulse_timer_id # 0

\* ------------------------------------------------------------------------
\* Properties of the parsers (SpecP)
\* ------------------------------------------------------------------------

\* the places of the list out holding a candidate a parser found (fb FALSE)
\* or a fallback link (fb TRUE)
Places(out, fb) == {i \in 1..Len(out) : out[i].fb = fb}

\* C7: every parser invocation that yields zero real candidates, on every
\* return path, appends exactly one fallback candidate.
C7_ExactlyOneFallback ==
    pn > 0 /\ Places(pcall.out, FALSE) = {}
        => Cardinality(Places(pcall.out, TRUE)) = 1

\* C8: no two candidates of the result list of one search have the same
\* URL, whatever parser added them: the entries show_results reads out of
\* the list carry pairwise different URLs.
C8_NoDuplicateUrl ==
    pn > 0 =>
        \A i, j \in 1..Len(pcall.read) :
            i # j /\ pcall.read[i].sep /\ pcall.read[j].sep
                => pcall.read[i].url # pcall.read[j].url

\* C9: the candidates one search produces never exceed MAX_RESULTS, and the
\* results after ranking never exceed the candidates before ranking.
C9_AtMostMaxResults ==
    pn > 0 => /\ Len(pcall.out) <= MAX_RESULTS
              /\ Len(pcall.queue) <= Len(pcall.out)

\* C10: no per-search state leaks across searches: with the counter at 0
\* and the set empty at its start, a search produces the candidates the
\* same query, site and content produce in a process that has searched
\* nothing before.
C10_NoLeakAcrossSearches ==
    pn > 0 =>
        pcall.out = ParseSite(pcall.index, NewParse, pcall.env, pcall.q, FALSE).ps.out

\* C28: a fallback link is in a parser's result only when the parser found
\* no candidate in real content: for every site parser, no result list
\* holds both a fallback link and a candidate.
C28_FallbackOnlyAlone ==
    pn > 0 => Places(pcall.out, TRUE) = {} \/ Places(pcall.out, FALSE) = {}

\* C19: for every parser that writes an extractor script to a temporary
\* file, the file no longer exists when the parser returns, on every path
\* after its creation: script write failure, command build failure, process
\* start failure, non-zero exit, invalid output, success.
C19_TempFileRemoved == pn > 0 => ~pcall.tmp_left

\* ------------------------------------------------------------------------
\* Properties of the query interpreter and the ranking (SpecQ)
\* ------------------------------------------------------------------------

\* the decisive tokens of the query ranked last
DecisiveTokens ==
    IF partial_search_term(rcall.q, rcall.status) = NULL THEN <<>>
    ELSE tokenize_and_filter_stop_words(partial_search_term(rcall.q, rcall.status))

\* how many of the decisive tokens are substrings of the lower-cased title
MatchedIn(title) ==
    Cardinality({k \in 1..Len(DecisiveTokens) :
                     strstr(g_ascii_strdown(title), DecisiveTokens[k])})

Urls(s) == [i \in 1..Len(s) |-> s[i].url]

\* C11: under a paired-quote query, matched is the number of decisive
\* tokens that are substrings of the lower-cased title and total the number
\* of decisive tokens; a result is Perfect iff matched = total and total > 0,
\* Partial iff 0 < matched < total, and left out otherwise: every result
\* kept has matched >= 1, a Perfect one has matched = total, none is both.
C11_Classification ==
    rcall.status = QUOTE_PAIR =>
        /\ Urls(rcall.queue)
               = Urls(SelectSeq(rcall.links, LAMBDA e : MatchedIn(e.title) >= 1))
        /\ \A i \in 1..Len(rcall.queue) :
              LET ri == rcall.queue[i]
              IN /\ ri.matched_tokens = MatchedIn(ri.title)
                 /\ ri.total_tokens = Len(DecisiveTokens)
                 /\ ri.perfect_match
                        <=> (ri.matched_tokens = ri.total_tokens /\ ri.total_tokens > 0)
                 /\ ri.partial_match
                        <=> (0 < ri.matched_tokens /\ ri.matched_tokens < ri.total_tokens)
                 /\ ri.matched_tokens >= 1
                 /\ ~(ri.perfect_match /\ ri.partial_match)

\* a paired-quote query with two decisive tokens ranked a list of which one
\* title holds both, one holds one, and two hold none
C11_Witness ==
    /\ rcall.status = QUOTE_PAIR
    /\ Len(DecisiveTokens) = 2
    /\ Len(rcall.links) = 4
    /\ Len(rcall.queue) = 2
    /\ \E i, j \in 1..Len(rcall.queue) :
          rcall.queue[i].perfect_match /\ rcall.queue[j].partial_match

\* C12: when the quote state of the query is QUOTE_NONE or QUOTE_SINGLE,
\* show_results classifies nothing and passes every candidate through: the
\* ranked list is the candidate list of the parser, in the same order, with
\* neither match flag set.
C12_PassThrough ==
    pn > 0 /\ detect_quote_status(pcall.q) # QUOTE_PAIR =>
        /\ Len(pcall.queue) = Len(pcall.out)
        /\ \A i \in 1..Len(pcall.queue) :
              /\ pcall.queue[i].title = pcall.out[i].title
              /\ pcall.queue[i].url = pcall.out[i].url
              /\ ~pcall.queue[i].perfect_match
              /\ ~pcall.queue[i].partial_match

\* the query of the example: "roast chicken" in paired double quotes
RoastChicken == Str("\"roast chicken\"")

\* the results ranked last under the title "Roasted Chicken Thighs"
RoastedThighs ==
    SelectSeq(rcall.queue, LAMBDA ri : ri.title = Str("Roasted Chicken Thighs"))

\* the query is "roast chicken", the title is among the candidates
RoastCase ==
    /\ rcall.q = RoastChicken
    /\ \E i \in 1..Len(rcall.links) : rcall.links[i].title = Str("Roasted Chicken Thighs")

\* C13 as stated: the query "roast chicken" in paired quotes has the quote
\* state QUOTE_PAIR and the decisive tokens roast and chicken, and the title
\* "Roasted Chicken Thighs" matches 1 of 2 and is a partial match.
C13_RoastPartial ==
    RoastCase =>
        /\ rcall.status = QUOTE_PAIR
        /\ DecisiveTokens = <<Str("roast"), Str("chicken")>>
        /\ Len(RoastedThighs) = 1
        /\ RoastedThighs[1].matched_tokens = 1
        /\ RoastedThighs[1].total_tokens = 2
        /\ RoastedThighs[1].partial_match /\ ~RoastedThighs[1].perfect_match

\* C13 amended: the query "roast chicken" in paired quotes has the quote
\* state QUOTE_PAIR and the decisive tokens roast and chicken; a token
\* matches as a substring, so the title "Roasted Chicken Thighs" holds both,
\* matches 2 of 2 and is a perfect match.
C13_RoastPerfect ==
    RoastCase =>
        /\ rcall.status = QUOTE_PAIR
        /\ DecisiveTokens = <<Str("roast"), Str("chicken")>>
        /\ Len(RoastedThighs) = 1
        /\ RoastedThighs[1].matched_tokens = 2
        /\ RoastedThighs[1].total_tokens = 2
        /\ RoastedThighs[1].perfect_match /\ ~RoastedThighs[1].partial_match

\* "roast chicken" ranked a list holding the title, and the title was kept
C13_Witness == RoastCase /\ Len(RoastedThighs) = 1 /\ Len(rcall.links) > 1

\* the single and the double ASCII quotes of the query ranked last
Singles == Cardinality({i \in 1..Len(rcall.q) : rcall.q[i] = "'"})

Doubles == Cardinality({i \in 1..Len(rcall.q) : rcall.q[i] = "\""})

EvenNonZero(n) == n > 0 /\ n % 2 = 0

\* C14: detect_quote_status returns QUOTE_PAIR iff the single quote or the
\* double quote occurs an even, nonzero number of times in the query;
\* otherwise QUOTE_SINGLE iff some quote occurs; QUOTE_NONE iff none does.
C14_QuoteStatus ==
    /\ rcall.status = QUOTE_PAIR <=> (EvenNonZero(Singles) \/ EvenNonZero(Doubles))
    /\ rcall.status = QUOTE_SINGLE
           <=> (~(EvenNonZero(Singles) \/ EvenNonZero(Doubles))
                /\ (Singles > 0 \/ Doubles > 0))
    /\ rcall.status = QUOTE_NONE <=> (Singles = 0 /\ Doubles = 0)

\* a query with one apostrophe and a pair of double quotes was interpreted
C14_Witness == Singles = 1 /\ Doubles = 2 /\ rcall.status = QUOTE_PAIR

\* C15: curly quotes are normalized to ASCII before the quote state is
\* computed: the state of a query is the state of its normalized text, so a
\* query whose only quotes are a pair of curly quotes has QUOTE_PAIR like
\* its ASCII form.
C15_CurlyQuotesCounted ==
    rcall.status = detect_quote_status(normalize_quotes_utf8(rcall.q))

\* ------------------------------------------------------------------------
\* Properties of the download (SpecD)
\* ------------------------------------------------------------------------

\* the write w stays under the cap: size + chunk_len + 1 <= 32 MiB
WithinCap(w) == w.before + w.len + 1 <= MAX_DOWNLOAD_SIZE

\* the machine had the memory of every tier and realloc gave it
Granted(w) == w.free_mem >= MAX_DOWNLOAD_SIZE /\ w.realloc_ok

\* C16: of the chunks of a body larger than the cap, every write is accepted
\* in full until size + chunk_len + 1 would exceed 32 MiB (on a machine that
\* grants the memory); that write returns 0 and no later write stores
\* anything; the stored size never exceeds 32 MiB - 1; the fetch reports an
\* error.
C16_CapRejects ==
    /\ dl.chunk.size <= MAX_DOWNLOAD_SIZE - 1
    /\ dl.writes > 0 =>
          /\ WithinCap(dl.last) /\ Granted(dl.last)
                 => /\ dl.last.ret = dl.last.len
                    /\ dl.chunk.size = dl.last.before + dl.last.len
                    /\ ~dl.rejected
          /\ ~WithinCap(dl.last)
                 => dl.last.ret = 0 /\ dl.rejected
          /\ dl.rejected
                 => /\ dl.last.ret = 0
                    /\ dl.chunk.size = dl.last.before
                    /\ dl.pc = "returned" => dl.rc # "CURLE_OK" /\ dl.ret = "NULL"

\* three quarters of the cap were stored, the next quarter was refused for
\* the cap alone, and download_html returned NULL
C16_Witness ==
    /\ dl.pc = "returned"
    /\ dl.writes = 4
    /\ dl.last.before = 3 * (MAX_DOWNLOAD_SIZE \div 4)
    /\ dl.last.len = MAX_DOWNLOAD_SIZE \div 4
    /\ Granted(dl.last)
    /\ dl.rejected
    /\ dl.ret = "NULL"

\* C17: download_html never hands over a part of the body: it returns the
\* accumulated content only when the transfer completed and every write was
\* accepted in full; on a transport error or a rejected write it returns
\* NULL and the bytes accumulated are freed.
C17_NoPartialContent ==
    dl.pc = "returned" =>
        /\ dl.ret = "data"
               => /\ dl.rc = "CURLE_OK"
                  /\ ~dl.rejected
                  /\ dl.chunk.size = dl.sent
                  /\ ~dl.freed
        /\ (dl.rejected \/ dl.rc \in {"CURLE_WRITE_ERROR", "CURLE_OPERATION_TIMEDOUT"})
               => dl.ret = "NULL" /\ dl.freed

\* bytes were stored, a later write was rejected, download_html returned
C17_Witness ==
    /\ dl.pc = "returned"
    /\ dl.rejected
    /\ dl.chunk.size > 0
    /\ dl.sent > dl.chunk.size
    /\ dl.ret = "NULL"

\* C18: after every call of memory_write_callback on a block that holds
\* data, accepted or rejected: size + 1 <= capacity <= 32 MiB, and the byte
\* at index size is the terminator.
C18_BlockInvariant ==
    dl.writes > 0 /\ dl.chunk.data /\ ~dl.freed =>
        /\ dl.chunk.size + 1 <= dl.chunk.capacity
        /\ dl.chunk.capacity <= MAX_DOWNLOAD_SIZE
        /\ dl.chunk.nul = dl.chunk.size

\* the block is full to the last byte under the cap and a further call was
\* rejected
C18_Witness ==
    /\ dl.pc = "perform"
    /\ dl.rejected
    /\ dl.chunk.data
    /\ dl.chunk.size = MAX_DOWNLOAD_SIZE - 1
    /\ dl.chunk.capacity = MAX_DOWNLOAD_SIZE

\* ------------------------------------------------------------------------
\* Progress of a search (SpecL)
\* ------------------------------------------------------------------------

\* C20: every started search eventually delivers its terminal outcome and
\* re-enables new searches: the fetch is bounded by its 15 s timeout and
\* every extractor invocation by a timeout, so an extractor that never
\* answers or never exits cannot keep a search in flight for ever.
C20_SearchTerminates ==
    \A sid \in SearchIds :
        (workers[sid].pc = "start") ~> (shown[sid].kind # "none" /\ ui_enabled)

\* ------------------------------------------------------------------------
\* Properties of the text functions (SpecT)
\* ------------------------------------------------------------------------

\* C22: split_title_and_digits turns "Amazing Ribs1,234 Ratings" into
\* "Amazing Ribs - 1,234 Ratings", the separator put in front of the last
\* run of digits, and leaves "Rib1234" as it is.
C22_ScenarioE ==
    /\ tcall.n > 0 /\ tcall.title = Str("Amazing Ribs1,234 Ratings")
          => tcall.fixed = Str("Amazing Ribs - 1,234 Ratings")
    /\ tcall.n > 0 /\ tcall.title = Str("Rib1234") => tcall.fixed = Str("Rib1234")

\* ------------------------------------------------------------------------
\* Properties of the buffer's growth (SpecD)
\* ------------------------------------------------------------------------

\* the capacities from doubled k times, k = 0, 1, ..., as far as the cap
Doublings(from) ==
    {from * (2 ^ k) : k \in {j \in 0..11 : 2 ^ j <= MAX_DOWNLOAD_SIZE \div from}}

\* from doubled the least number of times that covers need, at most the cap
DoubledToCover(from, need) ==
    IF \E c \in Doublings(from) : c >= need /\ c <= MAX_DOWNLOAD_SIZE
    THEN CHOOSE c \in Doublings(from) :
             c >= need /\ \A d \in Doublings(from) : d >= need => c <= d
    ELSE MAX_DOWNLOAD_SIZE

\* the last call of the callback gave the block a new capacity
Grew == dl.writes > 0 /\ dl.chunk.capacity # dl.last.block.capacity

\* C23: the buffer of a fetch starts at the tier chosen from the RAM of the
\* machine (16, 64 or 256 KiB, 128 KiB when the RAM is not detected); when a
\* write needs more room the new capacity is the current one doubled the
\* least number of times that covers size + chunk_len + 1, at most 32 MiB;
\* the capacity never decreases.
C23_GrowthPolicy ==
    /\ dl.writes > 0 => dl.chunk.capacity >= dl.last.block.capacity
    /\ Grew =>
          dl.chunk.capacity =
              DoubledToCover(IF dl.last.block.capacity = 0 THEN dl.parser_buffer.capacity
                             ELSE dl.last.block.capacity,
                             dl.last.before + dl.last.len + 1)

\* the write w had to be refused: it passes the cap, or the block had no
\* room for it and the machine did not give the memory of the next capacity
Refused(w) ==
    \/ ~WithinCap(w)
    \/ /\ w.before + w.len + 1 > w.block.capacity
       /\ (~w.realloc_ok
              \/ w.free_mem < DoubledToCover(IF w.block.capacity = 0
                                             THEN DEFAULT_MEMORY_PARSER_SIZE
                                             ELSE w.block.capacity,
                                             w.before + w.len + 1))

\* C26: a rejected write leaves the buffer unchanged: when
\* memory_write_callback refuses a chunk (cap exceeded, too little free
\* memory, allocation failure) it returns 0 and the size, the capacity and
\* the stored bytes are as before the call; an accepted write returns
\* chunk_len and copies the chunk to the end of the content, so the content
\* is the accepted chunks one after the other.
C26_RejectedWriteNoEffect ==
    dl.writes > 0 =>
        /\ dl.last.ret \in {0, dl.last.len}
        /\ Refused(dl.last) => dl.last.ret = 0 /\ dl.chunk = dl.last.block
        /\ dl.last.ret = 0 /\ dl.last.len > 0 => dl.chunk = dl.last.block
        /\ ~Refused(dl.last)
               => /\ dl.last.ret = dl.last.len
                  /\ dl.last.at = dl.last.block.size
                  /\ dl.chunk.size = dl.last.block.size + dl.last.len
        /\ ~dl.rejected /\ ~dl.freed => dl.chunk.size = dl.sent

\* C26 witness: bytes were stored, then a chunk under the cap found no room
\* and realloc failed: the call returned 0 and the block is as it was
C26_Witness ==
    /\ dl.writes > 1
    /\ dl.last.block.size > 0
    /\ dl.last.len > 0
    /\ WithinCap(dl.last)
    /\ dl.last.free_mem >= MAX_DOWNLOAD_SIZE
    /\ ~dl.last.realloc_ok
    /\ dl.last.ret = 0
    /\ dl.chunk = dl.last.block

\* ------------------------------------------------------------------------
\* Properties of the query interpreter (SpecT)
\* ------------------------------------------------------------------------

\* the least index of s from the index from on that holds a quote
\* character, 0 if there is none
NextQuote(s, from) ==
    IF \E i \in from..Len(s) : s[i] \in {"\"", "'"}
    THEN CHOOSE i \in from..Len(s) :
             s[i] \in {"\"", "'"} /\ \A j \in from..(i - 1) : s[j] \notin {"\"", "'"}
    ELSE 0

\* the least index of s behind open that holds the character at open, 0 if
\* there is none
CloseOf(s, open) ==
    IF \E i \in (open + 1)..Len(s) : s[i] = s[open]
    THEN CHOOSE i \in (open + 1)..Len(s) :
             s[i] = s[open] /\ \A j \in (open + 1)..(i - 1) : s[j] # s[open]
    ELSE 0

\* the quotes of s met outside a phrase from the index from on, each with
\* its closing quote, up to the first that has none
RECURSIVE QuotePairs(_, _)
QuotePairs(s, from) ==
    IF NextQuote(s, from) = 0 THEN <<>>
    ELSE IF CloseOf(s, NextQuote(s, from)) = 0 THEN <<>>
    ELSE << <<NextQuote(s, from), CloseOf(s, NextQuote(s, from))>> >>
         \o QuotePairs(s, CloseOf(s, NextQuote(s, from)) + 1)

\* the text between the quotes of the pair pr, lower case, without the
\* blanks at its ends
PhraseOf(s, pr) == g_strstrip(g_ascii_strdown(SubSeq(s, pr[1] + 1, pr[2] - 1)))

\* the pairs with text between their quotes
TextPairs(s) == SelectSeq(QuotePairs(s, 1), LAMBDA pr : pr[2] > pr[1] + 1)

\* the text of the entry with its curly quotes made plain
PlainQuery == normalize_quotes_utf8(tcall.q)

RECURSIVE WordsOf(_, _, _)
WordsOf(s, cur, acc) ==
    IF s = <<>> THEN (IF cur = <<>> THEN acc ELSE Append(acc, cur))
    ELSE IF isspace(Head(s))
         THEN WordsOf(Tail(s), <<>>, IF cur = <<>> THEN acc ELSE Append(acc, cur))
    ELSE WordsOf(Tail(s), Append(cur, Head(s)), acc)

\* C25: tokenize_and_filter_stop_words returns the words of its input
\* between whitespace, lower case, in the order of the input, without the
\* words of the stop-word set; no token is empty, holds a whitespace
\* character or is a stop word.
C25_TokensAreWords ==
    /\ tcall.tokens = SelectSeq(WordsOf(g_ascii_strdown(tcall.phrase), <<>>, <<>>),
                                LAMBDA t : t \notin stop_words)
    /\ \A i \in 1..Len(tcall.tokens) :
          /\ tcall.tokens[i] # <<>>
          /\ \A k \in 1..Len(tcall.tokens[i]) : ~isspace(tcall.tokens[i][k])
          /\ tcall.tokens[i] \notin stop_words

\* C27: whenever detect_quote_status classifies a query as QUOTE_PAIR,
\* extract_quoted_phrases returns at least one phrase of the same query and
\* the decisive tokens show_results builds from the phrases are not empty:
\* the ranking filter always has tokens to match.
C27_PairHasTokens ==
    tcall.status = QUOTE_PAIR =>
        /\ tcall.phrases # <<>>
        /\ tcall.decisive # NULL
        /\ tokenize_and_filter_stop_words(tcall.decisive) # <<>>

====
